---- MODULE Spec2Model ----
(***************************************************************************)
(* Verification model of img-bulk-tool: the image engine (ImageProcessor:  *)
(* content detection, content crop, aspect-ratio crop, layer placement,    *)
(* auto-trim), the colour matching (ColorAnalyzer), and the batch          *)
(* endpoints of the server with the FileManager.                           *)
(*                                                                         *)
(* The engine has no state of its own: every operation is one call on a    *)
(* decoded buffer, and the state is the call that was made (pc, call, ret: *)
(* operation, arguments and what it returned).  The server's state is the  *)
(* output directory and the requests in flight (outputDir, requests).      *)
(*                                                                         *)
(* Numbers.  The code computes in IEEE doubles; the model computes the     *)
(* same expressions exactly, over integers and fractions n/d, and rounds   *)
(* as Math.round does (half towards +infinity).  The colour matching also  *)
(* carries NaN, Infinity and -Infinity.                                    *)
(***************************************************************************)
EXTENDS Integers, Sequences, FiniteSets, TLC

VARIABLES pc, call, ret, outputDir, requests, editor, eventBus, component, matcher

vars == <<pc, call, ret, outputDir, requests, editor, eventBus, component, matcher>>

\* The call on the image engine.
engine == <<pc, call, ret>>

\* The state of the HTTP server: the files of the output directory and the
\* requests in flight.
server == <<outputDir, requests>>

\* The state of the browser: the layer editor with the presets in
\* localStorage, the event bus, a component with its DOM listeners, and the
\* colour matcher with its preview.
browser == <<editor, eventBus, component, matcher>>

\* A part of the browser that is not open.
Unused == [state |-> "unused"]

(***************************************************************************)
(* Bounds of the model.                                                    *)
(***************************************************************************)
MaxPixels == 4   \* most pixels (width * height) of an enumerated pixel buffer
MaxPainted == 2  \* most pixels of an enumerated buffer that differ from its base

(***************************************************************************)
(* Arithmetic helpers.                                                     *)
(***************************************************************************)
\* Math.max / Math.min of two numbers.
Max2(a, b) == IF a >= b THEN a ELSE b
Min2(a, b) == IF a <= b THEN a ELSE b

\* Math.min / Math.max folded over a set of numbers (the running minimum and
\* maximum of a scan loop).
MinOf(S) == CHOOSE a \in S : \A b \in S : a <= b
MaxOf(S) == CHOOSE a \in S : \A b \in S : a >= b

\* Math.round(n / d) for d > 0: the nearest integer, halves rounded up.
RoundDiv(n, d) == (2 * n + d) \div (2 * d)

\* An optional field of an options object: <<>> is undefined, <<v>> is v.
Undefined == <<>>
Some(v) == <<v>>
\* a ?? b
Coalesce(a, b) == IF a = Undefined THEN b ELSE a[1]

(***************************************************************************)
(* Pixel buffers.                                                          *)
(*                                                                         *)
(* A buffer carries the metadata the codec reports (width, height,         *)
(* hasAlpha, format, channels) and its pixel rows.  A row is a sequence of *)
(* runs [len, px]: len consecutive pixels of value px.  Enumerated buffers *)
(* use runs of length 1 (one run per pixel); the 1000x800 scenario buffer  *)
(* uses long runs.  A pixel is [c |-> <<r, g, b>>, a |-> alpha]; for a     *)
(* buffer without alpha channel a is 255, which is what ensureAlpha()      *)
(* makes of it.                                                            *)
(***************************************************************************)
Black == <<0, 0, 0>>
White == <<255, 255, 255>>

Opaque(c) == [c |-> c, a |-> 255]

KindRGBA == [hasAlpha |-> TRUE, format |-> "png", channels |-> 4]
KindGrey == [hasAlpha |-> FALSE, format |-> "png", channels |-> 1]
KindRGB == [hasAlpha |-> FALSE, format |-> "png", channels |-> 3]

\* A PNG with two channels, grey and alpha, and a greyscale JPEG: the first
\* meets the conditions of strategies 1 and 2, the second has few channels
\* but is no PNG.
KindGreyAlpha == [hasAlpha |-> TRUE, format |-> "png", channels |-> 2]
KindGreyJpeg == [hasAlpha |-> FALSE, format |-> "jpeg", channels |-> 1]

ImageKinds == {KindRGBA, KindGreyAlpha, KindGrey, KindGreyJpeg, KindRGB}

\* The pixel values the enumerated buffers of a kind are made of: for each
\* kind one value at the threshold of the default tolerance 10 (alpha 10,
\* grey 5 at distance sqrt(75) from black, <<6, 8, 0>> at distance exactly
\* 10 from black) and values clearly on either side.
PixelsOf(kind) ==
    IF kind.hasAlpha
      THEN {[c |-> Black, a |-> 0], [c |-> White, a |-> 10], [c |-> White, a |-> 255]}
      ELSE IF kind.channels = 1
        THEN {Opaque(Black), Opaque(<<5, 5, 5>>), Opaque(White)}
        ELSE {Opaque(Black), Opaque(<<6, 8, 0>>), Opaque(White)}

MakeImage(kind, w, h, rows) ==
    [width |-> w, height |-> h, hasAlpha |-> kind.hasAlpha,
     format |-> kind.format, channels |-> kind.channels, rows |-> rows]

\* The sizes of the enumerated buffers.
SmallSizes == { d \in (1..MaxPixels) \X (1..MaxPixels) : d[1] * d[2] <= MaxPixels }

\* Every buffer of at most MaxPixels pixels that is a base value with at
\* most MaxPainted pixels of other values painted on it.
SmallImages ==
    UNION { UNION { UNION {
        { MakeImage(kind, d[1], d[2],
            [y \in 1..d[2] |-> [x \in 1..d[1] |->
                [len |-> 1,
                 px |-> IF <<x, y>> \in DOMAIN paint THEN paint[<<x, y>>] ELSE base]]])
          : paint \in UNION { [S -> PixelsOf(kind) \ {base}]
                              : S \in {T \in SUBSET ((1..d[1]) \X (1..d[2]))
                                         : Cardinality(T) <= MaxPainted} } }
        : base \in PixelsOf(kind) }
        : d \in SmallSizes }
        : kind \in ImageKinds }

\* The buffer of the smart-crop scenario: 1000x800, no alpha channel, black
\* with a white 200x100 region whose top-left pixel is (400, 350).
ScenarioImage ==
    MakeImage(KindRGB, 1000, 800,
        [y \in 1..800 |->
            IF y - 1 >= 350 /\ y - 1 < 450
              THEN << [len |-> 400, px |-> Opaque(Black)],
                      [len |-> 200, px |-> Opaque(White)],
                      [len |-> 400, px |-> Opaque(Black)] >>
              ELSE << [len |-> 1000, px |-> Opaque(Black)] >>])

\* Column (0-based) of the first pixel of run j of a row.
RECURSIVE RunStart(_, _)
RunStart(row, j) == IF j = 1 THEN 0 ELSE RunStart(row, j - 1) + row[j - 1].len

\* data[(y * width + x) * channels ...]: the pixel at column x, row y (0-based).
PixelAt(img, x, y) ==
    LET row == img.rows[y + 1]
        j == CHOOSE k \in 1..Len(row) :
                 RunStart(row, k) <= x /\ x < RunStart(row, k) + row[k].len
    IN row[j].px

\* The pixel values that occur in the buffer.
PixelValues(img) ==
    UNION { { img.rows[y][j].px : j \in 1..Len(img.rows[y]) } : y \in 1..img.height }

(***************************************************************************)
(* Content detection (analyzeImageContent and its three strategies).       *)
(***************************************************************************)
\* ScanBounds with contentWidth = maxX + 1 and contentHeight = maxY + 1.
ScanBoundsFromOrigin(img, contentPixels) ==
    LET hits == { <<y, j>> \in UNION { {<<yy, jj>> : jj \in 1..Len(img.rows[yy])}
                                        : yy \in 1..img.height }
                    : img.rows[y][j].px \in contentPixels }
        minX == MinOf({img.width} \cup { RunStart(img.rows[h[1]], h[2]) : h \in hits })
        maxX == MaxOf({0} \cup { RunStart(img.rows[h[1]], h[2]) + img.rows[h[1]][h[2]].len - 1
                                   : h \in hits })
        minY == MinOf({img.height} \cup { h[1] - 1 : h \in hits })
        maxY == MaxOf({0} \cup { h[1] - 1 : h \in hits })
    IN IF hits = {}
         THEN [left |-> 0, top |-> 0, width |-> img.width, height |-> img.height,
               centerX2 |-> img.width, centerY2 |-> img.height, hasContent |-> FALSE]
         ELSE [left |-> minX, top |-> minY, width |-> maxX + 1, height |-> maxY + 1,
               centerX2 |-> 2 * minX + maxX + 1, centerY2 |-> 2 * minY + maxY + 1,
               hasContent |-> TRUE]

\* ScanBounds without the no-content case: the running minima and maxima
\* are returned as they are.
ScanBoundsNoEmptyCase(img, contentPixels) ==
    LET hits == { <<y, j>> \in UNION { {<<yy, jj>> : jj \in 1..Len(img.rows[yy])}
                                        : yy \in 1..img.height }
                    : img.rows[y][j].px \in contentPixels }
        minX == MinOf({img.width} \cup { RunStart(img.rows[h[1]], h[2]) : h \in hits })
        maxX == MaxOf({0} \cup { RunStart(img.rows[h[1]], h[2]) + img.rows[h[1]][h[2]].len - 1
                                   : h \in hits })
        minY == MinOf({img.height} \cup { h[1] - 1 : h \in hits })
        maxY == MaxOf({0} \cup { h[1] - 1 : h \in hits })
    IN [left |-> minX, top |-> minY,
        width |-> maxX - minX + 1, height |-> maxY - minY + 1,
        centerX2 |-> minX + maxX + 1, centerY2 |-> minY + maxY + 1,
        hasContent |-> hits # {}]

\* The scan loop shared by the three strategies: for y, for x, when the
\* pixel qualifies (its value is one of contentPixels): hasContent = true and minX, maxX, minY, maxY are
\* updated from their initial values width, 0, height, 0.  Every pixel of a
\* run has the run's value, so a qualifying run updates minX with its first
\* column and maxX with its last.  The result is the ContentBounds the
\* strategy returns; centerX and centerY are kept doubled (centerX2 =
\* 2 * centerX) to stay integral.
ScanBounds(img, contentPixels) ==
    LET width == img.width
        height == img.height
        hits == { <<y, j>> \in UNION { {<<yy, jj>> : jj \in 1..Len(img.rows[yy])}
                                        : yy \in 1..height }
                    : img.rows[y][j].px \in contentPixels }
        hasContent == hits # {}
        minX == MinOf({width} \cup { RunStart(img.rows[h[1]], h[2]) : h \in hits })
        maxX == MaxOf({0} \cup { RunStart(img.rows[h[1]], h[2]) + img.rows[h[1]][h[2]].len - 1
                                   : h \in hits })
        minY == MinOf({height} \cup { h[1] - 1 : h \in hits })
        maxY == MaxOf({0} \cup { h[1] - 1 : h \in hits })
        contentWidth == maxX - minX + 1
        contentHeight == maxY - minY + 1
    IN IF ~hasContent
         THEN [left |-> 0, top |-> 0, width |-> width, height |-> height,
               centerX2 |-> width, centerY2 |-> height, hasContent |-> FALSE]
         ELSE [left |-> minX, top |-> minY,
               width |-> contentWidth, height |-> contentHeight,
               centerX2 |-> 2 * minX + contentWidth,
               centerY2 |-> 2 * minY + contentHeight,
               hasContent |-> TRUE]

\* ensureAlpha(): the alpha of a pixel after the codec has made sure there is
\* an alpha channel; a channel that had to be added is fully opaque.
EnsureAlpha(img, px) == IF img.hasAlpha THEN px.a ELSE 255

\* Strategy 1: a pixel is content when its alpha exceeds the tolerance.
AnalyzeAlphaContent(img, tolerance) ==
    ScanBounds(img, { px \in PixelValues(img) : EnsureAlpha(img, px) > tolerance })

\* Strategy 2: the palette is expanded, an alpha channel ensured, and the
\* alpha scan is run on the expanded data.
AnalyzeIndexedContent(img, tolerance) ==
    ScanBounds(img, { px \in PixelValues(img) : EnsureAlpha(img, px) > tolerance })

\* The first min(channels, 3) channels of a raw pixel, padded with 0 to
\* three.  rawChannels is the channel count of the raw data.
GetPixelColor(px, rawChannels) ==
    [i \in 1..3 |-> IF i <= Min2(rawChannels, 3) THEN px.c[i] ELSE 0]

\* The background colour is the first corner sample (top-left).
FindBackgroundColor(cornerSamples) == cornerSamples[1]

\* The square of the Euclidean RGB distance of getColorDistance.
GetColorDistanceSq(color1, color2) ==
    LET rDiff == color1[1] - color2[1]
        gDiff == color1[2] - color2[2]
        bDiff == color1[3] - color2[3]
    IN rDiff * rDiff + gDiff * gDiff + bDiff * bDiff

\* colorDiff > tolerance, for colorDiff = sqrt(distSq): a non-negative
\* square root exceeds a negative tolerance, and exceeds a non-negative one
\* exactly when distSq exceeds its square.
DistanceExceeds(distSq, tolerance) ==
    tolerance < 0 \/ distSq > tolerance * tolerance

\* Strategy 3: a pixel is content when its colour is farther than the
\* tolerance from the background colour.  The raw data of a buffer without
\* alpha has three channels (the codec outputs sRGB).
AnalyzeColorContent(img, tolerance) ==
    LET width == img.width
        height == img.height
        channels == IF img.hasAlpha THEN 4 ELSE 3
        cornerSamples ==
            << GetPixelColor(PixelAt(img, 0, 0), channels),
               GetPixelColor(PixelAt(img, width - 1, 0), channels),
               GetPixelColor(PixelAt(img, 0, height - 1), channels),
               GetPixelColor(PixelAt(img, width - 1, height - 1), channels) >>
        bgColor == FindBackgroundColor(cornerSamples)
    IN ScanBounds(img,
           { px \in PixelValues(img) :
               DistanceExceeds(GetColorDistanceSq(GetPixelColor(px, channels), bgColor),
                               tolerance) })

\* The strategy analyzeImageContent runs to its end.  indexedFails says
\* whether the codec fails while expanding the palette (strategy 2 throws).
SelectedStrategy(img, indexedFails) ==
    IF img.hasAlpha THEN "alpha"
    ELSE IF img.format = "png" /\ img.channels <= 2 /\ ~indexedFails THEN "indexed"
    ELSE "color"

\* AnalyzeImageContent that never runs strategy 2.
AnalyzeImageContentWithoutIndexed(img, tolerance, indexedFails) ==
    IF img.hasAlpha
      THEN AnalyzeAlphaContent(img, tolerance)
      ELSE AnalyzeColorContent(img, tolerance)

AnalyzeImageContent(img, tolerance, indexedFails) ==
    IF img.hasAlpha
      THEN AnalyzeAlphaContent(img, tolerance)
    ELSE IF img.format = "png" /\ img.channels <= 2 /\ ~indexedFails
      THEN AnalyzeIndexedContent(img, tolerance)
    ELSE AnalyzeColorContent(img, tolerance)

(***************************************************************************)
(* Content crop (cropToContent).                                           *)
(***************************************************************************)
DefaultPadding == 20

\* options.paddingX ?? options.padding ?? 20, for the four sides.
ResolvePadding(options) ==
    [top |-> Coalesce(options.paddingTop, Coalesce(options.padding, DefaultPadding)),
     right |-> Coalesce(options.paddingRight, Coalesce(options.padding, DefaultPadding)),
     bottom |-> Coalesce(options.paddingBottom, Coalesce(options.padding, DefaultPadding)),
     left |-> Coalesce(options.paddingLeft, Coalesce(options.padding, DefaultPadding))]

\* The content-ratio guard left out.
ContentRatioNeverTooSmall(bounds, originalWidth, originalHeight, minRatio) == FALSE

\* contentRatio < options.minContentRatio, where contentRatio =
\* (bounds.width * bounds.height) / (originalWidth * originalHeight) and the
\* minimum is the fraction minRatio[1] / minRatio[2].
ContentRatioTooSmall(bounds, originalWidth, originalHeight, minRatio) ==
    bounds.width * bounds.height * minRatio[2]
        < minRatio[1] * originalWidth * originalHeight

\* CropRect without the clamp to the right and bottom edges.
CropRectUnclamped(bounds, originalWidth, originalHeight, pad) ==
    [left |-> Max2(0, bounds.left - pad.left),
     top |-> Max2(0, bounds.top - pad.top),
     width |-> bounds.width + pad.left + pad.right,
     height |-> bounds.height + pad.top + pad.bottom]

\* CropRect that grows the content by the left and top paddings only.
CropRectOneSided(bounds, originalWidth, originalHeight, pad) ==
    LET cropLeft == Max2(0, bounds.left - pad.left)
        cropTop == Max2(0, bounds.top - pad.top)
    IN [left |-> cropLeft, top |-> cropTop,
        width |-> Min2(bounds.width + pad.left, originalWidth - cropLeft),
        height |-> Min2(bounds.height + pad.top, originalHeight - cropTop)]

\* The crop rectangle: the content bounds grown by the paddings and clamped
\* to the top-left corner and to the right and bottom edges of the buffer.
CropRect(bounds, originalWidth, originalHeight, pad) ==
    LET cropLeft == Max2(0, bounds.left - pad.left)
        cropTop == Max2(0, bounds.top - pad.top)
        cropWidth == Min2(bounds.width + pad.left + pad.right,
                          originalWidth - cropLeft)
        cropHeight == Min2(bounds.height + pad.top + pad.bottom,
                           originalHeight - cropTop)
    IN [left |-> cropLeft, top |-> cropTop, width |-> cropWidth, height |-> cropHeight]

\* The codec's extract primitive accepts a rectangle of integer position
\* >= 0 and size >= 1 that lies inside the image it is applied to.
ExtractAccepts(width, height, rect) ==
    /\ rect.left >= 0 /\ rect.top >= 0
    /\ rect.width >= 1 /\ rect.height >= 1
    /\ rect.left + rect.width <= width
    /\ rect.top + rect.height <= height

\* cropToContent(buffer, options).  The result records the detected bounds
\* and either the input buffer, returned as it is, or the rectangle handed
\* to extract ("error" when extract rejects it).
CropToContent(img, options, indexedFails) ==
    LET contentBounds == AnalyzeImageContent(img, options.tolerance, indexedFails)
        rect == CropRect(contentBounds, img.width, img.height, ResolvePadding(options))
    IN IF ~contentBounds.hasContent
         THEN [kind |-> "original", buffer |-> img, bounds |-> contentBounds]
       ELSE IF ContentRatioTooSmall(contentBounds, img.width, img.height,
                                    options.minContentRatio)
         THEN [kind |-> "original", buffer |-> img, bounds |-> contentBounds]
       ELSE IF ExtractAccepts(img.width, img.height, rect)
         THEN [kind |-> "cropped", rect |-> rect, bounds |-> contentBounds]
       ELSE [kind |-> "error", rect |-> rect, bounds |-> contentBounds]

(***************************************************************************)
(* Inputs of the content operations.                                       *)
(***************************************************************************)
Tolerances == {0, 10}

\* minContentRatio as a fraction <<n, d>>: 0.01 (auto-trim), 0.1 (smart
\* crop and the default), 0.5.
MinContentRatios == {<<1, 100>>, <<1, 10>>, <<1, 2>>}

Padding(p, t, r, b, l) ==
    [padding |-> p, paddingTop |-> t, paddingRight |-> r,
     paddingBottom |-> b, paddingLeft |-> l]

\* Uniform paddings 0 and 20, no padding given at all, per-side values
\* over a uniform one, and a single side given.
Paddings ==
    { Padding(Some(0), Undefined, Undefined, Undefined, Undefined),
      Padding(Some(20), Undefined, Undefined, Undefined, Undefined),
      Padding(Undefined, Undefined, Undefined, Undefined, Undefined),
      Padding(Some(20), Some(0), Some(1), Some(2), Some(1)),
      Padding(Undefined, Undefined, Undefined, Undefined, Some(0)) }

CropOptionsOf(minRatios) ==
    { [padding |-> p.padding, paddingTop |-> p.paddingTop,
       paddingRight |-> p.paddingRight, paddingBottom |-> p.paddingBottom,
       paddingLeft |-> p.paddingLeft, tolerance |-> t, minContentRatio |-> m]
      : p \in Paddings, t \in Tolerances, m \in minRatios }

\* The buffers cropToContent is called on, each with the options it is
\* called with.  An enumerated buffer has at most MaxPixels pixels, so that
\* a content ratio below 0.1 needs the scenario buffer.
CropInputs ==
    (SmallImages \X CropOptionsOf({<<1, 10>>, <<1, 2>>}))
        \cup ({ScenarioImage} \X CropOptionsOf(MinContentRatios))

\* Strategy 2 can only fail where it is tried.
IndexedOutcomes(img) ==
    IF ~img.hasAlpha /\ img.format = "png" /\ img.channels <= 2
      THEN BOOLEAN ELSE {FALSE}

NoCall == [op |-> "none"]
NoRet == [kind |-> "none"]

(***************************************************************************)
(* The calls.                                                              *)
(***************************************************************************)
\* The requests the server handles at the same time.
RequestIds == { "A", "B" }

\* A request that has not arrived.
NoRequest == [stage |-> "idle"]

Init ==
    /\ pc = "idle"
    /\ call = NoCall
    /\ ret = NoRet
    /\ outputDir = {}
    /\ requests = [r \in RequestIds |-> NoRequest]
    /\ editor = Unused /\ eventBus = Unused /\ component = Unused /\ matcher = Unused

AnalyzeImageContentCall ==
    /\ pc = "idle"
    /\ \E img \in SmallImages, tolerance \in Tolerances :
         \E indexedFails \in IndexedOutcomes(img) :
           /\ call' = [op |-> "analyzeImageContent", buffer |-> img,
                       tolerance |-> tolerance, indexedFails |-> indexedFails]
           /\ ret' = [kind |-> "bounds",
                      strategy |-> SelectedStrategy(img, indexedFails),
                      bounds |-> AnalyzeImageContent(img, tolerance, indexedFails)]
    /\ pc' = "done"
    /\ UNCHANGED <<server, browser>>

CropToContentCall ==
    /\ pc = "idle"
    /\ \E in \in CropInputs :
         \E indexedFails \in IndexedOutcomes(in[1]) :
           /\ call' = [op |-> "cropToContent", buffer |-> in[1],
                       options |-> in[2], indexedFails |-> indexedFails]
           /\ ret' = CropToContent(in[1], in[2], indexedFails)
    /\ pc' = "done"
    /\ UNCHANGED <<server, browser>>

Next ==
    \/ AnalyzeImageContentCall
    \/ CropToContentCall

Spec == Init /\ [][Next]_vars

(***************************************************************************)
(* Properties of content detection and content crop.                       *)
(***************************************************************************)
\* The pixels of a buffer, one by one.
PixelsIn(img) ==
    { PixelAt(img, x, y) : x \in 0..(img.width - 1), y \in 0..(img.height - 1) }

\* A foreground pixel, as the strategy classifies it: alpha above the
\* tolerance (alpha and indexed strategies), colour farther than the
\* tolerance from the colour of the top-left pixel (colour strategy).
IsForeground(img, strategy, tolerance, px) ==
    IF strategy = "color"
      THEN LET d == GetColorDistanceSq(px.c, PixelAt(img, 0, 0).c)
           IN tolerance < 0 \/ d > tolerance * tolerance
      ELSE (IF img.hasAlpha THEN px.a ELSE 255) > tolerance

HasForeground(img, strategy, tolerance) ==
    \E px \in PixelsIn(img) : IsForeground(img, strategy, tolerance, px)

IsAnalyzeCall == pc = "done" /\ call.op = "analyzeImageContent"
IsCropCall == pc = "done" /\ call.op = "cropToContent"

FullBounds(img, bounds) ==
    /\ bounds.left = 0 /\ bounds.top = 0
    /\ bounds.width = img.width /\ bounds.height = img.height

\* C1: whenever cropToContent plans a crop (it does not return the input
\* buffer), the rectangle lies inside the source buffer, extract accepts it,
\* and it is at least as wide and as high as the detected content.
C1_CropInsideSource ==
    (IsCropCall /\ ret.kind # "original") =>
        /\ ret.kind = "cropped"
        /\ ret.rect.left >= 0 /\ ret.rect.top >= 0
        /\ ret.rect.left + ret.rect.width <= call.buffer.width
        /\ ret.rect.top + ret.rect.height <= call.buffer.height
        /\ ret.rect.width >= ret.bounds.width
        /\ ret.rect.height >= ret.bounds.height

\* C1 witness: a crop with per-side paddings whose padded width had to be
\* clamped at the right edge and is still wider than the content.
C1_Witness ==
    /\ IsCropCall /\ ret.kind = "cropped"
    /\ call.options.paddingRight # Undefined
    /\ ret.rect.width > ret.bounds.width
    /\ ret.rect.width < ret.bounds.width + ResolvePadding(call.options).left
                          + ResolvePadding(call.options).right
    /\ ret.rect.left > 0

\* C2: when the buffer has a foreground pixel under the strategy that ran,
\* analyzeImageContent reports hasContent with bounds inside the buffer.
C2_BoundsInsideBuffer ==
    (IsAnalyzeCall /\ HasForeground(call.buffer, ret.strategy, call.tolerance)) =>
        /\ ret.bounds.hasContent
        /\ 0 <= ret.bounds.left
        /\ ret.bounds.left + ret.bounds.width <= call.buffer.width
        /\ 0 <= ret.bounds.top
        /\ ret.bounds.top + ret.bounds.height <= call.buffer.height

\* C2 witness, one per strategy is reachable; this one is the colour
\* strategy finding content that starts right of and below the origin.
C2_Witness ==
    /\ IsAnalyzeCall /\ ret.strategy = "color"
    /\ ret.bounds.hasContent
    /\ ret.bounds.left > 0 /\ ret.bounds.top > 0

C2_WitnessAlpha ==
    /\ IsAnalyzeCall /\ ret.strategy = "alpha"
    /\ ret.bounds.hasContent /\ ret.bounds.left > 0 /\ ret.bounds.width > 1

C2_WitnessIndexed ==
    /\ IsAnalyzeCall /\ ret.strategy = "indexed" /\ ret.bounds.hasContent

\* A buffer all of whose pixels have alpha 0 / have the same value.
FullyTransparent(img) == img.hasAlpha /\ \A px \in PixelsIn(img) : px.a = 0
UniformColour(img) == \A px \in PixelsIn(img) : px = PixelAt(img, 0, 0)

\* C3 as stated: a fully transparent or exactly uniform buffer yields
\* hasContent = FALSE and the full buffer as bounds, whichever strategy ran.
C3_UniformHasNoContent ==
    (IsAnalyzeCall /\ (FullyTransparent(call.buffer) \/ UniformColour(call.buffer))) =>
        /\ ~ret.bounds.hasContent
        /\ FullBounds(call.buffer, ret.bounds)

\* C3 amended: a buffer without a foreground pixel under the strategy that
\* ran yields hasContent = FALSE and the full buffer as bounds.
C3_NoForegroundNoContent ==
    (IsAnalyzeCall /\ ~HasForeground(call.buffer, ret.strategy, call.tolerance)) =>
        /\ ~ret.bounds.hasContent
        /\ FullBounds(call.buffer, ret.bounds)

\* C3 witness: a buffer of more than one pixel value, none of them
\* foreground (a value within the tolerance of the background).
C3_Witness ==
    /\ IsAnalyzeCall
    /\ ~HasForeground(call.buffer, ret.strategy, call.tolerance)
    /\ ~UniformColour(call.buffer)
    /\ call.buffer.width > 1
    /\ ~ret.bounds.hasContent

\* C4: when no content was detected, or the content ratio is below
\* minContentRatio, cropToContent returns the input buffer itself: nothing
\* is extracted and no error is raised.
C4_NoOpReturnsInput ==
    (IsCropCall /\
        \/ ~ret.bounds.hasContent
        \/ ret.bounds.width * ret.bounds.height * call.options.minContentRatio[2]
             < call.options.minContentRatio[1] * call.buffer.width * call.buffer.height)
    => (ret.kind = "original" /\ ret.buffer = call.buffer)

\* C4 witness: content was detected, and its ratio is below the minimum.
C4_Witness ==
    /\ IsCropCall /\ ret.kind = "original"
    /\ ret.bounds.hasContent
    /\ ret.bounds.width < call.buffer.width

C4_WitnessNoContent ==
    IsCropCall /\ ret.kind = "original" /\ ~ret.bounds.hasContent

\* The smart-crop scenario: the 1000x800 buffer, tolerance 10, padding 20 on
\* all four sides.
IsScenarioCrop ==
    /\ IsCropCall
    /\ call.buffer = ScenarioImage
    /\ call.options.tolerance = 10
    /\ ResolvePadding(call.options) = [top |-> 20, right |-> 20, bottom |-> 20, left |-> 20]

ScenarioRect == [left |-> 380, top |-> 330, width |-> 240, height |-> 140]

\* C5 as stated: with minContentRatio 0.1 the scenario is cropped to
\* left 380, top 330, width 240, height 140.
C5_ScenarioCropsAtDefault ==
    (IsScenarioCrop /\ call.options.minContentRatio = <<1, 10>>) =>
        (ret.kind = "cropped" /\ ret.rect = ScenarioRect)

\* C5 amended: the scenario detects the 200x100 region; with
\* minContentRatio 0.01 it is cropped to 380, 330, 240, 140, and with 0.1
\* (content ratio 0.025) the input buffer is returned uncropped.
C5_ScenarioCrop ==
    IsScenarioCrop =>
        /\ ret.bounds.left = 400 /\ ret.bounds.top = 350
        /\ ret.bounds.width = 200 /\ ret.bounds.height = 100
        /\ call.options.minContentRatio = <<1, 100>> =>
               (ret.kind = "cropped" /\ ret.rect = ScenarioRect)
        /\ call.options.minContentRatio = <<1, 10>> =>
               (ret.kind = "original" /\ ret.buffer = call.buffer)

C5_Witness ==
    /\ IsScenarioCrop
    /\ call.options.minContentRatio = <<1, 100>>
    /\ ret.kind = "cropped"

(***************************************************************************)
(* Aspect-ratio crop (cropToAspectRatio).                                  *)
(*                                                                         *)
(* The operation reads only the dimensions of the buffer.  The aspect      *)
(* ratio is a string; the model keeps it as the sequence of its parts      *)
(* between colons (what split(':') returns).  An argument of JavaScript    *)
(* type number is Num(v), one of another type is NotNumber / NotString.    *)
(***************************************************************************)
MaxSide == 4     \* longest side of an enumerated buffer size

Num(v) == [type |-> "number", v |-> v]
NotNumber == [type |-> "string"]
Str(parts) == [type |-> "string", parts |-> parts]
NotString == [type |-> "undefined"]
EmptyString == Str(<<"">>)

\* parseFloat: the number at the start of the text as a fraction <<n, d>>,
\* NaN when the text does not start with a number.
NaN == <<0, 0>>
ParseFloat(text) ==
    CASE text = "16" -> <<16, 1>>
      [] text = "9" -> <<9, 1>>
      [] text = "4" -> <<4, 1>>
      [] text = "3" -> <<3, 1>>
      [] text = "2" -> <<2, 1>>
      [] text = "1" -> <<1, 1>>
      [] text = "1.5" -> <<3, 2>>
      [] text = "9px" -> <<9, 1>>
      [] text = "0" -> <<0, 1>>
      [] text = "-1" -> <<-1, 1>>
      [] OTHER -> NaN

IsNaN(q) == q = NaN
\* !q || q <= 0 || isNaN(q)
NotPositive(q) == IsNaN(q) \/ q[1] = 0 \/ q[1] <= 0

ErrFormat == "Invalid aspect ratio format"
ErrPositionType == "Invalid position parameters"
ErrPositionRange == "Position parameters must be between 0 and 100"
ErrParts == "Aspect ratio must be in format \"width:height\""
ErrValues == "Invalid aspect ratio values"
ErrDimensions == "Could not determine image dimensions"
ErrCropInvalid == "Calculated crop dimensions are invalid"
ErrCropExceeds == "Calculated crop dimensions exceed image size"
ErrTooSmall == "Image is too small for the requested aspect ratio"
ErrBoundaries == "Final crop coordinates exceed image boundaries"
ErrExtract == "extract_area: bad extract area"

ValidationErrors == {ErrFormat, ErrPositionType, ErrPositionRange, ErrParts, ErrValues}

\* ValidateAspectOptions without the upper limit of the position range.
ValidateAspectOptionsNoUpperLimit(options) ==
    IF options.aspectRatio.type # "string" \/ options.aspectRatio = EmptyString
      THEN ErrFormat
    ELSE IF options.positionX.type # "number" \/ options.positionY.type # "number"
      THEN ErrPositionType
    ELSE IF options.positionX.v < 0 \/ options.positionY.v < 0
      THEN ErrPositionRange
    ELSE IF Len(options.aspectRatio.parts) # 2
      THEN ErrParts
    ELSE IF \/ NotPositive(ParseFloat(options.aspectRatio.parts[1]))
            \/ NotPositive(ParseFloat(options.aspectRatio.parts[2]))
      THEN ErrValues
    ELSE "ok"

\* The validation of the options, in the order of the code: "ok" or the
\* message of the error thrown.
ValidateAspectOptions(options) ==
    IF options.aspectRatio.type # "string" \/ options.aspectRatio = EmptyString
      THEN ErrFormat
    ELSE IF options.positionX.type # "number" \/ options.positionY.type # "number"
      THEN ErrPositionType
    ELSE IF \/ options.positionX.v < 0 \/ options.positionX.v > 100
            \/ options.positionY.v < 0 \/ options.positionY.v > 100
      THEN ErrPositionRange
    ELSE IF Len(options.aspectRatio.parts) # 2
      THEN ErrParts
    ELSE IF \/ NotPositive(ParseFloat(options.aspectRatio.parts[1]))
            \/ NotPositive(ParseFloat(options.aspectRatio.parts[2]))
      THEN ErrValues
    ELSE "ok"

\* targetRatio = ratioWidth / ratioHeight as a fraction <<n, d>>, n, d > 0.
TargetRatio(ratioWidth, ratioHeight) ==
    <<ratioWidth[1] * ratioHeight[2], ratioWidth[2] * ratioHeight[1]>>

\* AspectCropSize with the comparison of the ratios the wrong way round.
AspectCropSizeSwapped(width, height, targetRatio) ==
    IF width * targetRatio[2] < targetRatio[1] * height
      THEN [width |-> RoundDiv(height * targetRatio[1], targetRatio[2]), height |-> height]
      ELSE [width |-> width, height |-> RoundDiv(width * targetRatio[2], targetRatio[1])]

\* The crop size: sourceRatio > targetRatio keeps the height and rounds the
\* width, otherwise keeps the width and rounds the height.
AspectCropSize(width, height, targetRatio) ==
    IF width * targetRatio[2] > targetRatio[1] * height
      THEN [width |-> RoundDiv(height * targetRatio[1], targetRatio[2]), height |-> height]
      ELSE [width |-> width, height |-> RoundDiv(width * targetRatio[2], targetRatio[1])]

\* AspectCropPosition that truncates instead of rounding.
AspectCropPositionTruncated(maxX, maxY, positionX, positionY) ==
    [left |-> Max2(0, Min2((maxX * positionX) \div 100, maxX)),
     top |-> Max2(0, Min2((maxY * positionY) \div 100, maxY))]

\* cropX = round(maxX * (positionX / 100)), clamped to [0, maxX]; cropY alike.
AspectCropPosition(maxX, maxY, positionX, positionY) ==
    LET cropX == RoundDiv(maxX * positionX, 100)
        cropY == RoundDiv(maxY * positionY, 100)
    IN [left |-> Max2(0, Min2(cropX, maxX)), top |-> Max2(0, Min2(cropY, maxY))]

AspectError(stage, message) == [kind |-> "error", stage |-> stage, error |-> message]

\* cropToAspectRatio(buffer, options): the rectangle extracted, or the error
\* thrown and the stage that threw it.  The catch block rethrows every
\* error with the prefix "Aspect ratio crop failed: ".
CropToAspectRatio(buffer, options) ==
    IF buffer.width = 0 \/ buffer.height = 0
      THEN AspectError("metadata", ErrDimensions)
    ELSE IF ValidateAspectOptions(options) # "ok"
      THEN AspectError("validation", ValidateAspectOptions(options))
    ELSE
      LET targetRatio == TargetRatio(ParseFloat(options.aspectRatio.parts[1]),
                                     ParseFloat(options.aspectRatio.parts[2]))
          size == AspectCropSize(buffer.width, buffer.height, targetRatio)
          maxX == buffer.width - size.width
          maxY == buffer.height - size.height
          pos == AspectCropPosition(maxX, maxY, options.positionX.v, options.positionY.v)
          rect == [left |-> pos.left, top |-> pos.top,
                   width |-> size.width, height |-> size.height]
      IN IF size.width <= 0 \/ size.height <= 0
           THEN AspectError("geometry", ErrCropInvalid)
         ELSE IF size.width > buffer.width \/ size.height > buffer.height
           THEN AspectError("geometry", ErrCropExceeds)
         ELSE IF maxX < 0 \/ maxY < 0
           THEN AspectError("geometry", ErrTooSmall)
         ELSE IF \/ pos.left + size.width > buffer.width
                 \/ pos.top + size.height > buffer.height
           THEN AspectError("geometry", ErrBoundaries)
         ELSE IF ~ExtractAccepts(buffer.width, buffer.height, rect)
           THEN AspectError("extract", ErrExtract)
         ELSE [kind |-> "cropped", rect |-> rect]

\* Buffer sizes: every size up to MaxSide x MaxSide, two sizes of real
\* images, and a buffer whose metadata has no dimensions.
Sizes ==
    { [width |-> w, height |-> h] : w \in 1..MaxSide, h \in 1..MaxSide }
        \cup { [width |-> 1920, height |-> 1080], [width |-> 1000, height |-> 800],
               [width |-> 10, height |-> 1] }

AspectRatios ==
    { Str(<<"16", "9">>), Str(<<"4", "3">>), Str(<<"1", "1">>), Str(<<"2", "3">>),
      Str(<<"1", "3">>), Str(<<"1.5", "1">>), Str(<<"16", "9px">>),
      Str(<<"16">>), Str(<<"1", "2", "3">>), Str(<<"0", "1">>), Str(<<"1", "-1">>),
      Str(<<"abc", "1">>), Str(<<"1", "">>), EmptyString, NotString }

Positions == { Num(-1), Num(0), Num(25), Num(50), Num(100), Num(101), NotNumber }

CropToAspectRatioCall ==
    /\ pc = "idle"
    /\ \E buffer \in Sizes \cup {[width |-> 0, height |-> 0]},
          aspectRatio \in AspectRatios, positionX \in Positions, positionY \in Positions :
         LET options == [aspectRatio |-> aspectRatio,
                         positionX |-> positionX, positionY |-> positionY]
         IN /\ call' = [op |-> "cropToAspectRatio", buffer |-> buffer, options |-> options]
            /\ ret' = CropToAspectRatio(buffer, options)
    /\ pc' = "done"
    /\ UNCHANGED <<server, browser>>

NextAspect == CropToAspectRatioCall

SpecAspect == Init /\ [][NextAspect]_vars

(***************************************************************************)
(* Properties of the aspect-ratio crop.                                    *)
(***************************************************************************)
IsAspectCall == pc = "done" /\ call.op = "cropToAspectRatio"

Abs(n) == IF n < 0 THEN -n ELSE n

\* The aspect ratio of the call is 'w:h' with positive numbers w and h.
RatioWellFormed(aspectRatio) ==
    /\ aspectRatio.type = "string"
    /\ aspectRatio # EmptyString
    /\ Len(aspectRatio.parts) = 2
    /\ ~NotPositive(ParseFloat(aspectRatio.parts[1]))
    /\ ~NotPositive(ParseFloat(aspectRatio.parts[2]))

PositionInRange(position) ==
    position.type = "number" /\ position.v >= 0 /\ position.v <= 100

ValidAspectCall ==
    /\ IsAspectCall
    /\ call.buffer.width > 0 /\ call.buffer.height > 0
    /\ RatioWellFormed(call.options.aspectRatio)
    /\ PositionInRange(call.options.positionX)
    /\ PositionInRange(call.options.positionY)

CallRatio ==
    TargetRatio(ParseFloat(call.options.aspectRatio.parts[1]),
                ParseFloat(call.options.aspectRatio.parts[2]))

\* C6: for a positive ratio rw:rh and any source size, the rectangle
\* cropToAspectRatio computes has one side equal to the source side and the
\* other within 1 px of the exact value (height * rw / rh, or
\* width * rh / rw), and lies inside the source; the only case without a
\* rectangle is the one where the other side rounds to 0.
C6_AspectRectFitsRatio ==
    ValidAspectCall =>
        \/ /\ ret.kind = "cropped"
           /\ call.buffer.width - ret.rect.width >= 0
           /\ call.buffer.height - ret.rect.height >= 0
           /\ ret.rect.left >= 0 /\ ret.rect.top >= 0
           /\ ret.rect.left + ret.rect.width <= call.buffer.width
           /\ ret.rect.top + ret.rect.height <= call.buffer.height
           /\ \/ /\ ret.rect.height = call.buffer.height
                 /\ Abs(ret.rect.width * CallRatio[2] - call.buffer.height * CallRatio[1])
                        <= CallRatio[2]
              \/ /\ ret.rect.width = call.buffer.width
                 /\ Abs(ret.rect.height * CallRatio[1] - call.buffer.width * CallRatio[2])
                        <= CallRatio[1]
        \/ /\ ret.kind = "error" /\ ret.error = ErrCropInvalid
           /\ \/ 2 * call.buffer.height * CallRatio[1] < CallRatio[2]
              \/ 2 * call.buffer.width * CallRatio[2] < CallRatio[1]

\* C6 witness: a crop whose computed side is not the exact value (it was
\* rounded) and is narrower than the source.
C6_Witness ==
    /\ ValidAspectCall /\ ret.kind = "cropped"
    /\ ret.rect.height = call.buffer.height
    /\ ret.rect.width < call.buffer.width
    /\ ret.rect.width * CallRatio[2] # call.buffer.height * CallRatio[1]

\* C7: the crop is placed at the integer nearest to maxX * positionX / 100
\* and maxY * positionY / 100; position 0 gives left = 0 / top = 0, position
\* 100 gives left = maxX / top = maxY; 1920x1080 with 1:1 at 50/50 gives
\* 1080x1080 at left 420, top 0.
C7_AspectPosition ==
    (ValidAspectCall /\ ret.kind = "cropped") =>
        LET maxX == call.buffer.width - ret.rect.width
            maxY == call.buffer.height - ret.rect.height
            positionX == call.options.positionX.v
            positionY == call.options.positionY.v
        IN /\ 2 * Abs(100 * ret.rect.left - maxX * positionX) <= 100
           /\ 2 * Abs(100 * ret.rect.top - maxY * positionY) <= 100
           /\ positionX = 0 => ret.rect.left = 0
           /\ positionY = 0 => ret.rect.top = 0
           /\ positionX = 100 => ret.rect.left = maxX
           /\ positionY = 100 => ret.rect.top = maxY
           /\ ( /\ call.buffer = [width |-> 1920, height |-> 1080]
                /\ call.options.aspectRatio = Str(<<"1", "1">>)
                /\ positionX = 50 /\ positionY = 50 )
              => ret.rect = [left |-> 420, top |-> 0, width |-> 1080, height |-> 1080]

\* C7 witness: the 1920x1080 scenario.
C7_Witness ==
    /\ ValidAspectCall /\ ret.kind = "cropped"
    /\ call.buffer = [width |-> 1920, height |-> 1080]
    /\ call.options.aspectRatio = Str(<<"1", "1">>)
    /\ call.options.positionX = Num(50) /\ call.options.positionY = Num(50)
    /\ ret.rect.left = 420

C8_WitnessRatio ==
    /\ IsAspectCall
    /\ call.options.aspectRatio = Str(<<"1", "-1">>)
    /\ PositionInRange(call.options.positionX)
    /\ PositionInRange(call.options.positionY)
    /\ ret.kind = "error" /\ ret.error = ErrValues

(***************************************************************************)
(* Layer placement (processLayerImageCorrected).                           *)
(*                                                                         *)
(* The operation reads only the dimensions of the layer image.  scale is a *)
(* fraction <<n, d>>; x, y and the crop percentages are integers.          *)
(***************************************************************************)
CanvasSize == 400
DefaultCropSize == 100

\* The sub-crop in pixels of the source: the percentages of the source
\* size, rounded, the size clamped to what is left of the source.
LayerCropRect(width, height, transformation) ==
    LET cropX == Coalesce(transformation.cropX, 0)
        cropY == Coalesce(transformation.cropY, 0)
        cropWidth == Coalesce(transformation.cropWidth, DefaultCropSize)
        cropHeight == Coalesce(transformation.cropHeight, DefaultCropSize)
        cropXPixels == RoundDiv(cropX * width, 100)
        cropYPixels == RoundDiv(cropY * height, 100)
        cropWidthPixels == RoundDiv(cropWidth * width, 100)
        cropHeightPixels == RoundDiv(cropHeight * height, 100)
    IN [left |-> cropXPixels, top |-> cropYPixels,
        width |-> Min2(cropWidthPixels, width - cropXPixels),
        height |-> Min2(cropHeightPixels, height - cropYPixels)]

\* LayerFinalSize of the earlier revision (processLayerImage): the image is
\* first fitted to the output canvas, then scaled.
LayerFinalSizeFitted(actualWidth, actualHeight, scale, outputSize) ==
    LET fitByWidth == outputSize * actualHeight <= outputSize * actualWidth
        baseFitWidth == IF fitByWidth THEN outputSize
                        ELSE RoundDiv(actualWidth * outputSize, actualHeight)
        baseFitHeight == IF fitByWidth THEN RoundDiv(actualHeight * outputSize, actualWidth)
                         ELSE outputSize
    IN [width |-> RoundDiv(baseFitWidth * scale[1], scale[2]),
        height |-> RoundDiv(baseFitHeight * scale[1], scale[2])]

\* finalScaleForOutput = scale / (canvasSize / outputSize); the final size is
\* round(actual * finalScaleForOutput), at least 1, at most outputSize.
LayerFinalSize(actualWidth, actualHeight, scale, outputSize) ==
    [width |-> Max2(1, Min2(outputSize,
                  RoundDiv(actualWidth * scale[1] * outputSize, scale[2] * CanvasSize))),
     height |-> Max2(1, Min2(outputSize,
                  RoundDiv(actualHeight * scale[1] * outputSize, scale[2] * CanvasSize)))]

\* LayerPosition without the clamp to [0, outputSize - final size].
LayerPositionUnclamped(outputSize, finalWidth, finalHeight, x, y) ==
    LET center == RoundDiv(outputSize, 2)
    IN [left |-> RoundDiv(2 * CanvasSize * center + 2 * x * outputSize
                              - CanvasSize * finalWidth, 2 * CanvasSize),
        top |-> RoundDiv(2 * CanvasSize * center + 2 * y * outputSize
                              - CanvasSize * finalHeight, 2 * CanvasSize)]

\* left = round(centerX + x * (outputSize / canvasSize) - finalWidth / 2)
\* with centerX = round(outputSize / 2), clamped to [0, outputSize -
\* finalWidth]; top alike.
LayerPosition(outputSize, finalWidth, finalHeight, x, y) ==
    LET center == RoundDiv(outputSize, 2)
        left == RoundDiv(2 * CanvasSize * center + 2 * x * outputSize
                             - CanvasSize * finalWidth, 2 * CanvasSize)
        top == RoundDiv(2 * CanvasSize * center + 2 * y * outputSize
                             - CanvasSize * finalHeight, 2 * CanvasSize)
    IN [left |-> Max2(0, Min2(outputSize - finalWidth, left)),
        top |-> Max2(0, Min2(outputSize - finalHeight, top))]

\* The codec's composite primitive accepts an overlay that is not larger
\* than the canvas.
CompositeAccepts(outputSize, finalWidth, finalHeight) ==
    finalWidth <= outputSize /\ finalHeight <= outputSize

\* processLayerImageCorrected(buffer, transformation, outputSize): the
\* sub-crop (when enabled), the final size and the position of the layer on
\* the outputSize x outputSize canvas, or the stage that threw.
ProcessLayerImageCorrected(buffer, transformation, outputSize) ==
    LET cropRect == LayerCropRect(buffer.width, buffer.height, transformation)
        actualWidth == IF transformation.cropEnabled THEN cropRect.width ELSE buffer.width
        actualHeight == IF transformation.cropEnabled THEN cropRect.height ELSE buffer.height
        size == LayerFinalSize(actualWidth, actualHeight, transformation.scale, outputSize)
        pos == LayerPosition(outputSize, size.width, size.height,
                             transformation.x, transformation.y)
    IN IF buffer.width = 0 \/ buffer.height = 0
         THEN [kind |-> "error", stage |-> "metadata"]
       ELSE IF /\ transformation.cropEnabled
               /\ ~ExtractAccepts(buffer.width, buffer.height, cropRect)
         THEN [kind |-> "error", stage |-> "extract", cropRect |-> cropRect]
       ELSE IF ~CompositeAccepts(outputSize, size.width, size.height)
         THEN [kind |-> "error", stage |-> "composite",
               finalWidth |-> size.width, finalHeight |-> size.height]
       ELSE [kind |-> "placed",
             actualWidth |-> actualWidth, actualHeight |-> actualHeight,
             finalWidth |-> size.width, finalHeight |-> size.height,
             left |-> pos.left, top |-> pos.top]

LayerSources ==
    { [width |-> 1, height |-> 1], [width |-> 3, height |-> 2],
      [width |-> 100, height |-> 50], [width |-> 399, height |-> 301],
      [width |-> 400, height |-> 400], [width |-> 800, height |-> 600],
      [width |-> 300, height |-> 900], [width |-> 1920, height |-> 1080] }

\* 0.1x, 0.5x, 1x, 1.05x and 3x.
LayerScales == { <<1, 10>>, <<1, 2>>, <<1, 1>>, <<21, 20>>, <<3, 1>> }

LayerOffsets == { -400, -3, 0, 3, 150, 400 }

LayerCrop(enabled, cx, cy, cw, ch) ==
    [cropEnabled |-> enabled, cropX |-> cx, cropY |-> cy,
     cropWidth |-> cw, cropHeight |-> ch]

\* No crop; crop enabled with no rectangle given; the whole image; an inner
\* rectangle; a rectangle reaching over the right edge; rectangles of no
\* width (at the far corner, and of size 0).
LayerCrops ==
    { LayerCrop(FALSE, Undefined, Undefined, Undefined, Undefined),
      LayerCrop(TRUE, Undefined, Undefined, Undefined, Undefined),
      LayerCrop(TRUE, Some(0), Some(0), Some(100), Some(100)),
      LayerCrop(TRUE, Some(25), Some(25), Some(50), Some(50)),
      LayerCrop(TRUE, Some(50), Some(0), Some(100), Some(50)),
      LayerCrop(TRUE, Some(100), Some(100), Some(100), Some(100)),
      LayerCrop(TRUE, Some(0), Some(0), Some(0), Some(0)) }

OutputSizes == { 1, 3, 400, 512, 1024 }

ProcessLayerImageCorrectedCall ==
    /\ pc = "idle"
    /\ \E buffer \in LayerSources, scale \in LayerScales,
          x \in LayerOffsets, y \in LayerOffsets,
          crop \in LayerCrops, outputSize \in OutputSizes :
         LET transformation ==
                 [visible |-> TRUE, scale |-> scale, x |-> x, y |-> y,
                  cropEnabled |-> crop.cropEnabled,
                  cropX |-> crop.cropX, cropY |-> crop.cropY,
                  cropWidth |-> crop.cropWidth, cropHeight |-> crop.cropHeight]
         IN /\ call' = [op |-> "processLayerImageCorrected", buffer |-> buffer,
                        transformation |-> transformation, outputSize |-> outputSize]
            /\ ret' = ProcessLayerImageCorrected(buffer, transformation, outputSize)
    /\ pc' = "done"
    /\ UNCHANGED <<server, browser>>

NextLayer == ProcessLayerImageCorrectedCall

SpecLayer == Init /\ [][NextLayer]_vars

(***************************************************************************)
(* Properties of the layer placement.                                      *)
(***************************************************************************)
IsLayerCall == pc = "done" /\ call.op = "processLayerImageCorrected"

\* The identity transformation on an output canvas of the preview size.
IsIdentityLayerCall ==
    /\ IsLayerCall
    /\ call.transformation.scale = <<1, 1>>
    /\ call.transformation.x = 0 /\ call.transformation.y = 0
    /\ ~call.transformation.cropEnabled
    /\ call.outputSize = CanvasSize

\* Unscaled, and centred up to the rounding of an odd margin.
PlacedUnscaledCentred ==
    /\ ret.kind = "placed"
    /\ ret.finalWidth = call.buffer.width
    /\ ret.finalHeight = call.buffer.height
    /\ Abs(2 * ret.left - (call.outputSize - ret.finalWidth)) <= 1
    /\ Abs(2 * ret.top - (call.outputSize - ret.finalHeight)) <= 1

\* C9 as stated: the identity transformation reproduces every source
\* unscaled and centred.
C9_IdentityEverySource == IsIdentityLayerCall => PlacedUnscaledCentred

\* C9 amended: the identity transformation reproduces every source that is
\* not larger than the canvas unscaled and centred; a side longer than the
\* canvas is reduced to the canvas size.
C9_IdentityWithinCanvas ==
    IsIdentityLayerCall =>
        /\ ( call.buffer.width <= call.outputSize
             /\ call.buffer.height <= call.outputSize ) => PlacedUnscaledCentred
        /\ ret.kind = "placed"
        /\ ret.finalWidth = Min2(call.buffer.width, call.outputSize)
        /\ ret.finalHeight = Min2(call.buffer.height, call.outputSize)

\* C9 witness: an identity call on a source smaller than the canvas with an
\* odd margin.
C9_Witness ==
    /\ IsIdentityLayerCall
    /\ ret.kind = "placed"
    /\ ret.finalWidth = 399 /\ ret.left > 0

\* C10: whenever a layer is placed it lies on the output canvas; and the
\* layer is placed unless the sub-crop is empty.
C10_LayerInsideCanvas ==
    IsLayerCall =>
        \/ /\ ret.kind = "placed"
           /\ ret.finalWidth >= 1 /\ ret.finalHeight >= 1
           /\ ret.finalWidth <= call.outputSize
           /\ ret.finalHeight <= call.outputSize
           /\ 0 <= ret.left /\ ret.left <= call.outputSize - ret.finalWidth
           /\ 0 <= ret.top /\ ret.top <= call.outputSize - ret.finalHeight
        \/ /\ ret.kind = "error" /\ ret.stage = "extract"
           /\ call.transformation.cropEnabled
           /\ ret.cropRect.width <= 0 \/ ret.cropRect.height <= 0

\* C10 witness: a cropped, enlarged layer pushed against the right edge of
\* the canvas and beyond the top edge.
C10_Witness ==
    /\ IsLayerCall /\ ret.kind = "placed"
    /\ call.transformation.cropEnabled
    /\ call.transformation.x = 400 /\ call.transformation.y = -400
    /\ ret.finalWidth < call.outputSize
    /\ ret.left = call.outputSize - ret.finalWidth
    /\ ret.top = 0
    /\ ret.finalHeight = call.outputSize

(***************************************************************************)
(* The client's preview (LayerEditor.renderCanvas) against the export.     *)
(***************************************************************************)
\* What renderCanvas draws for a layer on the preview canvas, as fractions
\* over the common denominator den: the layer is drawn
\* (crop% * image size / 100) * scale wide and high, with its centre at
\* (canvasSize / 2 + x, canvasSize / 2 + y).  Nothing is rounded or clamped;
\* the canvas clips what lies outside.
RenderCanvas(image, layer) ==
    LET cropWidth == IF layer.cropEnabled THEN Coalesce(layer.cropWidth, DefaultCropSize)
                     ELSE 100
        cropHeight == IF layer.cropEnabled THEN Coalesce(layer.cropHeight, DefaultCropSize)
                      ELSE 100
        den == 200 * layer.scale[2]
        scaledWidth == 2 * cropWidth * image.width * layer.scale[1]
        scaledHeight == 2 * cropHeight * image.height * layer.scale[1]
    IN [den |-> den,
        scaledWidth |-> scaledWidth, scaledHeight |-> scaledHeight,
        drawX |-> (CanvasSize \div 2 + layer.x) * den - scaledWidth \div 2,
        drawY |-> (CanvasSize \div 2 + layer.y) * den - scaledHeight \div 2]

\* The ranges the layer controls accept: scale 0.1 .. 3, x and y
\* -200 .. 200, cropX and cropY 0 .. 90, cropWidth and cropHeight 10 .. 100,
\* and validateCropBounds keeps the crop inside the image.
AuthoredOnPreview(layer) ==
    /\ 10 * layer.scale[1] >= layer.scale[2] /\ layer.scale[1] <= 3 * layer.scale[2]
    /\ layer.x >= -200 /\ layer.x <= 200 /\ layer.y >= -200 /\ layer.y <= 200
    /\ layer.cropEnabled =>
         LET cropX == Coalesce(layer.cropX, 0)
             cropY == Coalesce(layer.cropY, 0)
             cropWidth == Coalesce(layer.cropWidth, DefaultCropSize)
             cropHeight == Coalesce(layer.cropHeight, DefaultCropSize)
         IN /\ cropX >= 0 /\ cropX <= 90 /\ cropY >= 0 /\ cropY <= 90
            /\ cropWidth >= 10 /\ cropWidth <= 100
            /\ cropHeight >= 10 /\ cropHeight <= 100
            /\ cropX + cropWidth <= 100 /\ cropY + cropHeight <= 100

IsAuthoredLayerCall ==
    /\ IsLayerCall
    /\ AuthoredOnPreview(call.transformation)
    /\ ret.kind = "placed"

\* |exported - preview * outputSize / canvasSize| <= tolerance, for an
\* exported length in output pixels and a preview length preview / den in
\* preview pixels.  The tolerance is tol output pixels plus the size of
\* srcPx source pixels on the output canvas (the export rounds the crop to
\* source pixels before scaling it).
WithinRounding(exported, preview, den, tol, srcPx) ==
    LET scale == call.transformation.scale
    IN Abs(exported * CanvasSize * den - preview * call.outputSize) * scale[2]
         <= (tol * CanvasSize * scale[2] + srcPx * scale[1] * call.outputSize) * den

\* The exported layer has the size and the position of the previewed one,
\* re-projected by outputSize / canvasSize.
ExportMatchesPreview ==
    LET preview == RenderCanvas(call.buffer, call.transformation)
    IN /\ WithinRounding(ret.finalWidth, preview.scaledWidth, preview.den, 1, 1)
       /\ WithinRounding(ret.finalHeight, preview.scaledHeight, preview.den, 1, 1)
       /\ WithinRounding(ret.left, preview.drawX, preview.den, 2, 1)
       /\ WithinRounding(ret.top, preview.drawY, preview.den, 2, 1)

\* The previewed layer lies on the preview canvas.
PreviewInsideCanvas ==
    LET preview == RenderCanvas(call.buffer, call.transformation)
    IN /\ preview.drawX >= 0 /\ preview.drawY >= 0
       /\ preview.drawX + preview.scaledWidth <= CanvasSize * preview.den
       /\ preview.drawY + preview.scaledHeight <= CanvasSize * preview.den

\* C11: for every layer transformation authored on the preview canvas and
\* every export size, the exported layer has the relative size and the
\* relative position the previewed layer has, up to rounding.
C11_ExportMatchesPreview == IsAuthoredLayerCall => ExportMatchesPreview

\* The export matches the preview for the layers the preview shows whole.
C11_ExportMatchesPreviewInside ==
    (IsAuthoredLayerCall /\ PreviewInsideCanvas) => ExportMatchesPreview

\* An export of a layer the preview shows whole at a size other than the
\* preview's, cropped and moved off the centre.
C11_WitnessInside ==
    /\ IsAuthoredLayerCall /\ PreviewInsideCanvas
    /\ call.outputSize = 1024
    /\ call.transformation.cropEnabled
    /\ call.transformation.x = 150
    /\ ret.left > 0 /\ ret.left + ret.finalWidth < call.outputSize

(***************************************************************************)
(* Auto-trim to a fixed target size (autoTrimAndResize).                   *)
(***************************************************************************)
\* A w x h buffer with alpha channel: transparent, with an opaque white box
\* (box.width = 0: no box).
BoxImage(w, h, box) ==
    LET clear == [c |-> Black, a |-> 0]
    IN MakeImage(KindRGBA, w, h,
         [y \in 1..h |->
            IF box.width > 0 /\ y - 1 >= box.top /\ y - 1 < box.top + box.height
              THEN (IF box.left > 0 THEN << [len |-> box.left, px |-> clear] >> ELSE << >>)
                   \o << [len |-> box.width, px |-> Opaque(White)] >>
                   \o (IF box.left + box.width < w
                         THEN << [len |-> w - box.left - box.width, px |-> clear] >>
                         ELSE << >>)
              ELSE << [len |-> w, px |-> clear] >>])

Box(l, t, w, h) == [left |-> l, top |-> t, width |-> w, height |-> h]

\* The buffers auto-trim is applied to: content of a size the README names
\* (477x500), thin content (1000x1, 1x200), a single pixel, content that
\* fills the buffer, and a buffer without content.
TrimImages ==
    { BoxImage(500, 500, Box(20, 0, 477, 500)),
      BoxImage(1200, 3, Box(100, 1, 1000, 1)),
      BoxImage(3, 220, Box(1, 10, 1, 200)),
      BoxImage(4, 4, Box(1, 1, 1, 1)),
      BoxImage(3, 2, Box(0, 0, 3, 2)),
      BoxImage(64, 64, Box(0, 0, 64, 64)),
      BoxImage(30, 20, Box(0, 0, 0, 0)) }

TargetSides == { 1, 2, 64, 100, 512, 513 }

\* The options of POST /api/process for auto-trim (padding 0 or given,
\* tolerance 100, minContentRatio 0.01), and no options at all: the default
\* parameter of cropToContent applies.
AutoTrimOptions ==
    { [padding |-> Some(0), paddingTop |-> Undefined, paddingRight |-> Undefined,
       paddingBottom |-> Undefined, paddingLeft |-> Undefined,
       tolerance |-> 100, minContentRatio |-> <<1, 100>>],
      [padding |-> Some(5), paddingTop |-> Undefined, paddingRight |-> Undefined,
       paddingBottom |-> Undefined, paddingLeft |-> Undefined,
       tolerance |-> 100, minContentRatio |-> <<1, 100>>],
      [padding |-> Some(DefaultPadding), paddingTop |-> Undefined, paddingRight |-> Undefined,
       paddingBottom |-> Undefined, paddingLeft |-> Undefined,
       tolerance |-> 10, minContentRatio |-> <<1, 10>>] }

\* The codec's resize primitive accepts positive integer dimensions.
ResizeAccepts(width, height) == width >= 1 /\ height >= 1

\* The codec's composite primitive accepts an overlay that is not larger
\* than the canvas it is put on.
OverlayFits(canvasWidth, canvasHeight, width, height) ==
    width <= canvasWidth /\ height <= canvasHeight

\* scale = Math.min(targetWidth / trimmedWidth, targetHeight / trimmedHeight);
\* scaledWidth = round(trimmedWidth * scale), scaledHeight alike.
TrimScaledSize(trimmedWidth, trimmedHeight, targetWidth, targetHeight) ==
    LET scale == IF targetWidth * trimmedHeight <= targetHeight * trimmedWidth
                   THEN <<targetWidth, trimmedWidth>>
                   ELSE <<targetHeight, trimmedHeight>>
    IN [width |-> RoundDiv(trimmedWidth * scale[1], scale[2]),
        height |-> RoundDiv(trimmedHeight * scale[1], scale[2])]

\* offsetX = round((targetWidth - scaledWidth) / 2), offsetY alike.
TrimOffset(targetWidth, targetHeight, scaledWidth, scaledHeight) ==
    [x |-> RoundDiv(targetWidth - scaledWidth, 2),
     y |-> RoundDiv(targetHeight - scaledHeight, 2)]

\* The part of autoTrimAndResize after the trim: the scaled size and the
\* offsets on the targetWidth x targetHeight canvas, or the stage that threw.
ResizeTrimmed(trimmed, img, targetWidth, targetHeight) ==
    LET trimmedWidth == IF trimmed.kind = "cropped" THEN trimmed.rect.width ELSE img.width
        trimmedHeight == IF trimmed.kind = "cropped" THEN trimmed.rect.height ELSE img.height
        scaled == TrimScaledSize(trimmedWidth, trimmedHeight, targetWidth, targetHeight)
        offset == TrimOffset(targetWidth, targetHeight, scaled.width, scaled.height)
        sizes == [trimmedWidth |-> trimmedWidth, trimmedHeight |-> trimmedHeight,
                  scaledWidth |-> scaled.width, scaledHeight |-> scaled.height]
    IN IF trimmed.kind = "error"
         THEN [kind |-> "error", stage |-> "trim"]
       ELSE IF ~ResizeAccepts(scaled.width, scaled.height)
         THEN [kind |-> "error", stage |-> "resize", sizes |-> sizes]
       ELSE IF \/ ~OverlayFits(targetWidth, targetHeight, scaled.width, scaled.height)
               \/ offset.x < 0 \/ offset.y < 0
         THEN [kind |-> "error", stage |-> "composite", sizes |-> sizes]
       ELSE [kind |-> "resized", sizes |-> sizes,
             canvasWidth |-> targetWidth, canvasHeight |-> targetHeight,
             offsetX |-> offset.x, offsetY |-> offset.y]

\* autoTrimAndResize(buffer, targetWidth, targetHeight, autoTrimOptions):
\* cropToContent, then the resize of its result.
AutoTrimAndResize(img, targetWidth, targetHeight, autoTrimOptions, indexedFails) ==
    CHOOSE resized \in { ResizeTrimmed(trimmed, img, targetWidth, targetHeight)
                           : trimmed \in { CropToContent(img, autoTrimOptions, indexedFails) } }
        : TRUE

AutoTrimAndResizeCall ==
    /\ pc = "idle"
    /\ \E img \in TrimImages, options \in AutoTrimOptions,
          targetWidth \in TargetSides, targetHeight \in TargetSides :
         /\ call' = [op |-> "autoTrimAndResize", buffer |-> img,
                     targetWidth |-> targetWidth, targetHeight |-> targetHeight,
                     options |-> options]
         /\ ret' = AutoTrimAndResize(img, targetWidth, targetHeight, options, FALSE)
    /\ pc' = "done"
    /\ UNCHANGED <<server, browser>>

NextTrim == AutoTrimAndResizeCall

SpecTrim == Init /\ [][NextTrim]_vars

(***************************************************************************)
(* Properties of autoTrimAndResize.                                        *)
(***************************************************************************)
IsTrimCall == pc = "done" /\ call.op = "autoTrimAndResize"

\* The result is a targetWidth x targetHeight canvas on which the scaled
\* content fits and is centred.
FitsCentred ==
    /\ ret.kind = "resized"
    /\ ret.canvasWidth = call.targetWidth /\ ret.canvasHeight = call.targetHeight
    /\ ret.sizes.scaledWidth <= call.targetWidth
    /\ ret.sizes.scaledHeight <= call.targetHeight
    /\ ret.offsetX >= 0 /\ ret.offsetY >= 0
    /\ ret.offsetX + ret.sizes.scaledWidth <= call.targetWidth
    /\ ret.offsetY + ret.sizes.scaledHeight <= call.targetHeight
    /\ Abs(call.targetWidth - ret.sizes.scaledWidth - 2 * ret.offsetX) <= 1
    /\ Abs(call.targetHeight - ret.sizes.scaledHeight - 2 * ret.offsetY) <= 1

\* C12: for every trimmed content size and every target size,
\* autoTrimAndResize produces a target-size canvas on which the
\* proportionally scaled content fits and is centred (margins on opposite
\* sides differ by at most 1 px).
C12_TrimFitsCentred == IsTrimCall => FitsCentred

\* Whenever autoTrimAndResize produces a canvas the content fits and is
\* centred on it, and it produces one unless a scaled side rounds to 0.
C12_TrimFitsCentredOrEmpty ==
    IsTrimCall =>
        \/ FitsCentred
        \/ /\ ret.kind = "error" /\ ret.stage = "resize"
           /\ ret.sizes.scaledWidth = 0 \/ ret.sizes.scaledHeight = 0

\* Content of 477x500 centred on a 512x513 canvas with an odd margin.
C12_WitnessCentred ==
    /\ IsTrimCall /\ FitsCentred
    /\ ret.sizes.trimmedWidth = 477 /\ ret.sizes.trimmedHeight = 500
    /\ call.targetWidth = 512 /\ call.targetHeight = 513
    /\ ret.sizes.scaledHeight = call.targetHeight
    /\ (call.targetWidth - ret.sizes.scaledWidth) % 2 = 1
    /\ ret.offsetX > 0

(***************************************************************************)
(* Colour matching (ColorAnalyzer).                                        *)
(*                                                                         *)
(* Numbers are exact fractions <<n, d>> with d > 0.  A ColorStats is       *)
(* [saturation, brightness, contrast]; the channel averages are left out,  *)
(* calculateAdjustment does not read them.  A buffer of the colour         *)
(* operations is represented by the ColorStats analyzeImage computes from  *)
(* its pixels.                                                             *)
(***************************************************************************)
MaxIntensity == 20  \* largest magnitude of an intensity, in hundreds of percent

RECURSIVE GCD(_, _)
GCD(a, b) == IF b = 0 THEN a ELSE GCD(b, a % b)

Sign(n) == IF n > 0 THEN 1 ELSE IF n < 0 THEN -1 ELSE 0

\* A JavaScript number is a pair <<n, d>>: the fraction n / d in lowest
\* terms with d > 0, or one of the three values that are not finite: NaN,
\* Infinity and -Infinity.
Infinity == <<1, 0>>
NegInfinity == << -1, 0 >>
IsFinite(a) == a[2] # 0

\* n / d of two integers; n / 0 is Infinity, -Infinity or NaN.
Frac(n, d) ==
    IF d = 0 THEN << Sign(n), 0 >>
    ELSE LET g == GCD(Abs(n), Abs(d))
             sign == IF d < 0 THEN -1 ELSE 1
         IN << sign * (n \div g), sign * (d \div g) >>

\* a + b: Infinity + -Infinity and anything + NaN are NaN.  Finite sums and
\* comparisons go through the least common denominator and finite products
\* cancel crosswise, which keeps every intermediate number small.
FracAdd(a, b) ==
    IF IsFinite(a) /\ IsFinite(b)
      THEN LET g == GCD(a[2], b[2])
           IN Frac(a[1] * (b[2] \div g) + b[1] * (a[2] \div g), (a[2] \div g) * b[2])
    ELSE IF ~IsFinite(a) /\ ~IsFinite(b) THEN (IF a = b THEN a ELSE NaN)
    ELSE IF ~IsFinite(a) THEN a
    ELSE b
FracSub(a, b) == FracAdd(a, << -b[1], b[2] >>)

\* a * b: 0 * Infinity and anything * NaN are NaN.
FracMul(a, b) ==
    IF IsFinite(a) /\ IsFinite(b)
      THEN LET g1 == GCD(Abs(a[1]), b[2])
               g2 == GCD(Abs(b[1]), a[2])
           IN Frac((a[1] \div g1) * (b[1] \div g2), (a[2] \div g2) * (b[2] \div g1))
      ELSE << Sign(a[1]) * Sign(b[1]), 0 >>
FracDiv(a, b) == FracMul(a, Frac(b[2], b[1]))

\* a < b: FALSE when either is NaN.
FracLess(a, b) ==
    IF IsNaN(a) \/ IsNaN(b) THEN FALSE
    ELSE IF IsFinite(a) /\ IsFinite(b)
      THEN LET g == GCD(a[2], b[2])
           IN a[1] * (b[2] \div g) < b[1] * (a[2] \div g)
    ELSE IF ~IsFinite(a) THEN a = NegInfinity /\ b # NegInfinity
    ELSE b = Infinity

\* Math.max and Math.min: NaN when either argument is NaN.
FracMax(a, b) ==
    IF IsNaN(a) \/ IsNaN(b) THEN NaN ELSE IF FracLess(a, b) THEN b ELSE a
FracMin(a, b) ==
    IF IsNaN(a) \/ IsNaN(b) THEN NaN ELSE IF FracLess(b, a) THEN b ELSE a
One == <<1, 1>>
Hundred == <<100, 1>>

\* A statistic in units of 0.005: Stat(0) = 0, Stat(2) = 0.01, Stat(200) = 1.
Stat(k) == Frac(k, 200)

\* RawMultiplier that scales the target ratio instead of its difference to 1.
RawMultiplierFromRatio(source, target, intensity, extra) ==
    IF FracLess(<<1, 100>>, source)
      THEN FracAdd(One, FracMul(FracDiv(target, source), FracDiv(intensity, Hundred)))
      ELSE One

\* RawMultiplier that amplifies at every intensity.
RawMultiplierAlwaysAmplified(source, target, intensity, extra) ==
    IF FracLess(<<1, 100>>, source)
      THEN LET enhancedDifference ==
                   FracMul(FracSub(FracDiv(target, source), One),
                           FracDiv(intensity, Hundred))
               amplification ==
                   FracAdd(One, FracMul(FracDiv(FracSub(intensity, Hundred), Hundred),
                                        extra))
           IN FracAdd(One, FracMul(enhancedDifference, amplification))
      ELSE One

\* The multiplier 1 + enhancedDifference [* amplification] of one statistic;
\* extra = 3/2 for saturation, 6/5 for brightness.  The guard keeps the
\* multiplier 1 for a source statistic of at most 0.01.
RawMultiplier(source, target, intensity, extra) ==
    IF FracLess(<<1, 100>>, source)
      THEN LET intensityFactor == FracDiv(intensity, Hundred)
               targetRatio == FracDiv(target, source)
               baseDifference == FracSub(targetRatio, One)
               enhancedDifference == FracMul(baseDifference, intensityFactor)
               extraIntensity == FracDiv(FracSub(intensity, Hundred), Hundred)
               amplification == FracAdd(One, FracMul(extraIntensity, extra))
           IN IF FracLess(Hundred, intensity)
                THEN FracAdd(One, FracMul(enhancedDifference, amplification))
                ELSE FracAdd(One, enhancedDifference)
      ELSE One

\* contrastBoost: 1 unless intensity > 150 and the target's contrast
\* exceeds the source's.
ContrastBoost(sourceStats, targetStats, intensity) ==
    IF FracLess(<<150, 1>>, intensity)
           /\ FracLess(sourceStats.contrast, targetStats.contrast)
      THEN LET contrastRatio == FracDiv(targetStats.contrast,
                                        FracMax(sourceStats.contrast, <<1, 100>>))
           IN FracAdd(One,
                  FracMul(FracDiv(FracMul(FracSub(contrastRatio, One),
                                          FracSub(intensity, <<150, 1>>)),
                                  <<150, 1>>),
                          <<3, 10>>))
      ELSE One

\* The multipliers of calculateAdjustment before they are clamped.
RawAdjustment(sourceStats, targetStats, intensity) ==
    [saturationMultiplier |->
         FracMul(RawMultiplier(sourceStats.saturation, targetStats.saturation,
                               intensity, <<3, 2>>),
                 ContrastBoost(sourceStats, targetStats, intensity)),
     brightnessMultiplier |->
         RawMultiplier(sourceStats.brightness, targetStats.brightness, intensity, <<6, 5>>)]

\* Math.max(low, Math.min(high, value))
ClampMultiplier(value, low, high) == FracMax(low, FracMin(high, value))

\* calculateAdjustment(sourceStats, targetStats, intensity)
CalculateAdjustment(sourceStats, targetStats, intensity) ==
    LET raw == RawAdjustment(sourceStats, targetStats, intensity)
    IN [saturationMultiplier |->
            ClampMultiplier(raw.saturationMultiplier, <<1, 10>>, <<5, 1>>),
        brightnessMultiplier |->
            ClampMultiplier(raw.brightnessMultiplier, <<1, 5>>, <<3, 1>>),
        hueRotation |-> 0]

\* Statistics at, below and above the guard 0.01, and ordinary ones.
ColorProfiles ==
    { [saturation |-> Stat(s), brightness |-> Stat(b), contrast |-> Stat(c)]
      : s \in {0, 1, 2, 3, 40, 80, 200}, b \in {0, 2, 100, 200}, c \in {0, 1, 80} }

\* Intensities inside and outside the documented 0 .. 300, and the numbers
\* that are not finite.
FiniteIntensities ==
    { -100 * MaxIntensity, -100, 0, 50, 100, 101, 150, 152, 200, 300, 100 * MaxIntensity }
Intensities == { <<i, 1>> : i \in FiniteIntensities } \cup { Infinity, NegInfinity, NaN }

CalculateAdjustmentCall ==
    /\ pc = "idle"
    /\ \E sourceStats \in ColorProfiles, targetStats \in ColorProfiles,
          intensity \in Intensities :
         /\ call' = [op |-> "calculateAdjustment", sourceStats |-> sourceStats,
                     targetStats |-> targetStats, intensity |-> intensity]
         /\ ret' = [kind |-> "adjustment",
                    adjustment |-> CalculateAdjustment(sourceStats, targetStats, intensity),
                    raw |-> RawAdjustment(sourceStats, targetStats, intensity)]
    /\ pc' = "done"
    /\ UNCHANGED <<server, browser>>

\* The codec's modulate primitive accepts a brightness and a saturation that
\* are numbers >= 0.
ModulateAccepts(brightness, saturation) ==
    /\ IsFinite(brightness) /\ ~FracLess(brightness, <<0, 1>>)
    /\ IsFinite(saturation) /\ ~FracLess(saturation, <<0, 1>>)

\* applyAdvancedAdjustments: "ok", or "error" when modulate rejects the
\* boosts.  contrastBoost, hueShift, sharpness, noiseReduction and gamma are
\* at their neutral values.
ApplyAdvancedAdjustments(options) ==
    IF options.saturationBoost # 100 \/ options.brightnessBoost # 100
      THEN (IF ModulateAccepts(Frac(options.brightnessBoost, 100),
                               Frac(options.saturationBoost, 100))
              THEN "ok" ELSE "error")
      ELSE "ok"

\* matchColorsToReferenceAdvanced(sourceBuffer, referenceBuffer, options):
\* scanned says whether analyzeImage read the pixels of the reference and
\* the source; adjustment is the one applied by matchColorsToReference.
MatchColorsToReferenceAdvanced(sourceStats, referenceStats, options) ==
    LET matches == options.intensity > 0
        adjustment == CalculateAdjustment(sourceStats, referenceStats,
                                          <<options.intensity, 1>>)
        matched == IF ~matches THEN "skipped"
                   ELSE IF ModulateAccepts(adjustment.brightnessMultiplier,
                                           adjustment.saturationMultiplier)
                     THEN "ok" ELSE "error"
    IN IF matched = "error"
         THEN [kind |-> "error", stage |-> "match", scanned |-> TRUE]
       ELSE IF ApplyAdvancedAdjustments(options) = "error"
         THEN [kind |-> "error", stage |-> "advanced", scanned |-> matches]
       ELSE [kind |-> "buffer", scanned |-> matches, matched |-> matched]

\* Percentages in and out of their ranges.
AdvancedIntensities ==
    { -100 * MaxIntensity, -1, 0, 1, 100, 300, 302, 100 * MaxIntensity }
Boosts == { -100, 0, 100, 250 }

AdvancedColorOptions ==
    { [intensity |-> i, saturationBoost |-> sb, brightnessBoost |-> bb]
      : i \in AdvancedIntensities, sb \in Boosts, bb \in Boosts }

\* Buffers of the advanced match.
MatchProfiles ==
    { p \in ColorProfiles : p.brightness = Stat(100) /\ p.contrast = Stat(1) }

MatchColorsToReferenceAdvancedCall ==
    /\ pc = "idle"
    /\ \E sourceStats \in MatchProfiles, referenceStats \in MatchProfiles,
          options \in AdvancedColorOptions :
         /\ call' = [op |-> "matchColorsToReferenceAdvanced",
                     sourceStats |-> sourceStats, referenceStats |-> referenceStats,
                     options |-> options]
         /\ ret' = MatchColorsToReferenceAdvanced(sourceStats, referenceStats, options)
    /\ pc' = "done"
    /\ UNCHANGED <<server, browser>>

NextColor ==
    \/ CalculateAdjustmentCall
    \/ MatchColorsToReferenceAdvancedCall

SpecColor == Init /\ [][NextColor]_vars

(***************************************************************************)
(* Properties of the colour matching.                                      *)
(***************************************************************************)
IsAdjustmentCall == pc = "done" /\ call.op = "calculateAdjustment"
IsAdvancedCall == pc = "done" /\ call.op = "matchColorsToReferenceAdvanced"

\* C13: calculateAdjustment(profile, profile, 100) returns saturation and
\* brightness multipliers of exactly 1, for every profile, those with a
\* statistic of 0 or at most 0.01 included.
C13_SameProfileIsNeutral ==
    (IsAdjustmentCall /\ call.sourceStats = call.targetStats /\ call.intensity = Hundred) =>
        /\ ret.adjustment.saturationMultiplier = One
        /\ ret.adjustment.brightnessMultiplier = One

\* C13 witness: a profile matched with itself whose saturation is above the
\* guard (the ratio is computed) and whose brightness is at the guard.
C13_Witness ==
    /\ IsAdjustmentCall /\ call.sourceStats = call.targetStats /\ call.intensity = Hundred
    /\ call.sourceStats.saturation = Stat(40)
    /\ call.sourceStats.brightness = Stat(2)
    /\ call.sourceStats.contrast = Stat(0)
    /\ ret.adjustment.saturationMultiplier = One

\* The multiplier the formula of C14 gives for one statistic.
FormulaMultiplier(source, target, intensity, extra) ==
    LET A == IF FracLess(Hundred, intensity)
               THEN FracAdd(One, FracMul(FracDiv(FracSub(intensity, Hundred), Hundred),
                                         extra))
               ELSE One
        delta == FracSub(FracDiv(target, source), One)
    IN FracAdd(One, FracMul(FracMul(delta, FracDiv(intensity, Hundred)), A))

\* The contrast factor the formula of C14 gives.
FormulaContrast(sourceStats, targetStats, intensity) ==
    IF FracLess(<<150, 1>>, intensity)
           /\ FracLess(sourceStats.contrast, targetStats.contrast)
      THEN LET floor == FracMax(sourceStats.contrast, <<1, 100>>)
               contrastRatio == FracDiv(targetStats.contrast, floor)
           IN FracAdd(One,
                  FracMul(FracDiv(FracMul(FracSub(contrastRatio, One),
                                          FracSub(intensity, <<150, 1>>)),
                                  <<150, 1>>),
                          <<3, 10>>))
      ELSE One

\* C14: for source saturation and brightness above 0.01 the multipliers
\* before clamping are 1 + (target/source - 1) * (intensity/100) * A with
\* A = 1 up to intensity 100 and 1 + ((intensity - 100)/100) * 1.5
\* (saturation) or * 1.2 (brightness) above; the saturation multiplier is
\* further multiplied by 1 + (contrastRatio - 1) * (intensity - 150)/150 * 0.3
\* only when intensity > 150 and the target's contrast exceeds the source's;
\* source saturation 0.2, target saturation 0.4, intensity 100 gives 2.
C14_MultiplierFormula ==
    ( /\ IsAdjustmentCall
      /\ FracLess(<<1, 100>>, call.sourceStats.saturation)
      /\ FracLess(<<1, 100>>, call.sourceStats.brightness) )
    => /\ ret.raw.saturationMultiplier =
              FracMul(FormulaMultiplier(call.sourceStats.saturation,
                                        call.targetStats.saturation,
                                        call.intensity, <<3, 2>>),
                      FormulaContrast(call.sourceStats, call.targetStats, call.intensity))
       /\ ret.raw.brightnessMultiplier =
              FormulaMultiplier(call.sourceStats.brightness, call.targetStats.brightness,
                                call.intensity, <<6, 5>>)
       /\ ( /\ call.sourceStats.saturation = Stat(40)
            /\ call.targetStats.saturation = Stat(80)
            /\ call.intensity = Hundred )
          => /\ ret.raw.saturationMultiplier = <<2, 1>>
             /\ ret.adjustment.saturationMultiplier = <<2, 1>>

\* C14 witness: an amplified call with the contrast factor in effect.
C14_Witness ==
    /\ IsAdjustmentCall
    /\ call.intensity = <<200, 1>>
    /\ call.sourceStats.saturation = Stat(40) /\ call.targetStats.saturation = Stat(80)
    /\ call.sourceStats.brightness = Stat(100) /\ call.targetStats.brightness = Stat(200)
    /\ call.sourceStats.contrast = Stat(1) /\ call.targetStats.contrast = Stat(80)
    /\ ret.raw.saturationMultiplier # <<6, 1>>
    /\ ret.raw.brightnessMultiplier = <<27, 5>>

\* C15: for every pair of profiles and every intensity calculateAdjustment
\* returns a result with the saturation multiplier in [0.1, 5], the
\* brightness multiplier in [0.2, 3] and hue rotation 0.
C15_MultipliersClamped ==
    IsAdjustmentCall =>
        /\ ret.kind = "adjustment"
        /\ ~IsNaN(ret.adjustment.saturationMultiplier)
        /\ ~FracLess(ret.adjustment.saturationMultiplier, <<1, 10>>)
        /\ ~FracLess(<<5, 1>>, ret.adjustment.saturationMultiplier)
        /\ ~IsNaN(ret.adjustment.brightnessMultiplier)
        /\ ~FracLess(ret.adjustment.brightnessMultiplier, <<1, 5>>)
        /\ ~FracLess(<<3, 1>>, ret.adjustment.brightnessMultiplier)
        /\ ret.adjustment.hueRotation = 0

\* The multipliers are within their ranges for every finite intensity, and
\* for an intensity that is not finite they are within their ranges or NaN.
C15_ClampedUnlessNaN ==
    IsAdjustmentCall =>
        LET sat == ret.adjustment.saturationMultiplier
            bri == ret.adjustment.brightnessMultiplier
        IN /\ IsNaN(sat) \/ (~FracLess(sat, <<1, 10>>) /\ ~FracLess(<<5, 1>>, sat))
           /\ IsNaN(bri) \/ (~FracLess(bri, <<1, 5>>) /\ ~FracLess(<<3, 1>>, bri))
           /\ IsFinite(call.intensity) => (~IsNaN(sat) /\ ~IsNaN(bri))
           /\ ret.adjustment.hueRotation = 0

\* The largest finite intensity: the raw saturation multiplier far above 5
\* and the raw brightness multiplier below 0 are both clamped.
C15_WitnessClamped ==
    /\ IsAdjustmentCall
    /\ call.intensity = <<100 * MaxIntensity, 1>>
    /\ FracLess(<<100, 1>>, ret.raw.saturationMultiplier)
    /\ FracLess(ret.raw.brightnessMultiplier, <<0, 1>>)
    /\ ret.adjustment.saturationMultiplier = <<5, 1>>
    /\ ret.adjustment.brightnessMultiplier = <<1, 5>>

\* A profile matched with itself at intensity Infinity: 0 * Infinity is NaN
\* and the clamp returns NaN.
C15_WitnessNaN ==
    /\ IsAdjustmentCall
    /\ call.intensity = Infinity
    /\ call.sourceStats = call.targetStats
    /\ call.sourceStats.saturation = Stat(40)
    /\ IsNaN(ret.adjustment.saturationMultiplier)

\* A percentage outside its range: intensity outside the documented
\* 0 .. 300, or a negative boost.
OutOfRange(options) ==
    \/ options.intensity < 0 \/ options.intensity > 300
    \/ options.saturationBoost < 0 \/ options.brightnessBoost < 0

\* C16: a colour-match request with a percentage out of range is rejected
\* with an error before any pixel of the source or the reference is scanned.
C16_OutOfRangeRejected ==
    (IsAdvancedCall /\ OutOfRange(call.options)) =>
        (ret.kind = "error" /\ ~ret.scanned)

\* An intensity outside 0 .. 300 is never rejected; a negative boost is
\* rejected by the codec, after the pixels were scanned when intensity > 0.
C16_OutOfRangeIntensityAccepted ==
    IsAdvancedCall =>
        /\ ( call.options.saturationBoost >= 0 /\ call.options.brightnessBoost >= 0 )
             => ret.kind = "buffer"
        /\ ret.scanned = (call.options.intensity > 0)

C16_WitnessAccepted ==
    /\ IsAdvancedCall
    /\ call.options.intensity = 302
    /\ call.options.saturationBoost = 100 /\ call.options.brightnessBoost = 100
    /\ ret.kind = "buffer" /\ ret.scanned

(***************************************************************************)
(* The batch endpoints of the server and the FileManager.                  *)
(*                                                                         *)
(* A request walks through its images; every await of the handler is a     *)
(* point where another request may run, so finding a file name             *)
(* (getUniqueFilename) and writing the file (saveFile) are separate steps. *)
(* The naming options are at their defaults: sequential numbering.         *)
(***************************************************************************)

\* `${prefix}_${counter}.png` and `${prefix}.png` as tuples of their parts.
NumberedFilename(prefix, counter) == <<prefix, counter>>
PlainFilename(prefix) == <<prefix>>

SetMax(numbers) == CHOOSE n \in numbers : \A m \in numbers : m <= n

\* getNextAvailableNumber(prefix): one more than the largest N of the files
\* that match ^prefix_(\d+)\.png$, 1 when there is none.
GetNextAvailableNumber(files, prefix) ==
    LET matches == { file \in files : Len(file) = 2 /\ file[1] = prefix }
    IN SetMax({ file[2] : file \in matches } \cup {0}) + 1

RECURSIVE FirstFreeNumber(_, _, _)
FirstFreeNumber(files, prefix, counter) ==
    IF NumberedFilename(prefix, counter) \in files
      THEN FirstFreeNumber(files, prefix, counter + 1)
      ELSE counter

\* getUniqueFilename(prefix, startNumber, useNumbering)
GetUniqueFilename(files, prefix, startNumber, useNumbering) ==
    IF ~useNumbering
      THEN PlainFilename(prefix)
      ELSE NumberedFilename(prefix, FirstFreeNumber(files, prefix, startNumber))

Prefixes == { "icon", "logo" }

\* An uploaded image of POST /api/process: the prefix of its options, the
\* number of files its mode produces (compress 1, split 4) and whether its
\* processing throws.
ProcessImages ==
    { [prefix |-> p, parts |-> 1, outcome |-> o] : p \in Prefixes, o \in {"ok", "fails"} }
SplitImages == { [prefix |-> p, parts |-> 4, outcome |-> "ok"] : p \in Prefixes }

\* An image of POST /api/color-match.
MatchImages == { [prefix |-> "matched", parts |-> 1, outcome |-> o] : o \in {"ok", "fails"} }

\* The i-th layer of POST /api/layer-process: without a name its file is
\* called layer<i>; an invisible layer is skipped.
LayerImages(i) ==
    { [prefix |-> (IF i = 1 THEN "layer1" ELSE "layer2"), parts |-> 1, outcome |-> o]
      : o \in {"ok", "fails", "skipped"} }

\* The batches: the endpoint, the prefix whose files give the first number,
\* and one or two images.
Batches ==
    { [endpoint |-> "process", counterPrefix |-> images[1].prefix, images |-> images]
      : images \in { <<a>> : a \in ProcessImages \cup SplitImages }
                     \cup { <<a, b>> : a \in ProcessImages, b \in ProcessImages } }
    \cup
    { [endpoint |-> "color-match", counterPrefix |-> "matched", images |-> images]
      : images \in { <<a>> : a \in MatchImages }
                     \cup { <<a, b>> : a \in MatchImages, b \in MatchImages } }
    \cup
    { [endpoint |-> "layer-process", counterPrefix |-> "layer", images |-> images]
      : images \in { <<a>> : a \in LayerImages(1) }
                     \cup { <<a, b>> : a \in LayerImages(1), b \in LayerImages(2) } }

\* What the output directory holds when the server starts.
OutputDirs ==
    { {},
      { NumberedFilename("icon", 1) },
      { NumberedFilename("icon", 2), NumberedFilename("matched", 1) } }

InitServer ==
    /\ pc = "idle"
    /\ call = NoCall
    /\ ret = NoRet
    /\ outputDir \in OutputDirs
    /\ requests = [r \in RequestIds |-> NoRequest]
    /\ editor = Unused /\ eventBus = Unused /\ component = Unused /\ matcher = Unused

\* The handler up to its loop: the batch is parsed and globalCounter is read
\* from the directory.
BeginRequest(r) ==
    /\ requests[r].stage = "idle"
    /\ \E batch \in Batches :
         requests' = [requests EXCEPT ![r] =
             [stage |-> "image", endpoint |-> batch.endpoint, images |-> batch.images,
              files |-> outputDir,
              globalCounter |-> GetNextAvailableNumber(outputDir, batch.counterPrefix),
              i |-> 1, part |-> 1, filename |-> <<>>, processedFiles |-> <<>>,
              results |-> <<>>, response |-> <<>>]]
    /\ UNCHANGED <<engine, outputDir, browser>>

\* The image work of one pass of the loop.  An invisible layer is skipped.
\* A failure is caught and reported by /api/process, caught and only logged
\* by /api/color-match, and ends the loop of /api/layer-process with the
\* response of its outer catch.
ProcessImage(r) ==
    LET req == requests[r]
        image == req.images[req.i]
    IN /\ req.stage = "image"
       /\ req.i <= Len(req.images)
       /\ requests' = [requests EXCEPT ![r] =
            CASE image.outcome = "skipped" -> [req EXCEPT !.i = req.i + 1]
              [] image.outcome = "ok" -> [req EXCEPT !.stage = "name"]
              [] image.outcome = "fails" /\ req.endpoint = "process" ->
                   [req EXCEPT !.i = req.i + 1,
                               !.results = Append(req.results,
                                   [image |-> req.i, processed |-> <<>>, error |-> TRUE])]
              [] image.outcome = "fails" /\ req.endpoint = "color-match" ->
                   [req EXCEPT !.i = req.i + 1]
              [] image.outcome = "fails" /\ req.endpoint = "layer-process" ->
                   [req EXCEPT !.stage = "closed",
                               !.response = << [status |-> 500, results |-> <<>>] >>]]
       /\ UNCHANGED <<engine, outputDir, browser>>

\* filename = await getUniqueFilename(actualPrefix, globalCounter++)
NameFile(r) ==
    LET req == requests[r]
        actualPrefix == req.images[req.i].prefix
    IN /\ req.stage = "name"
       /\ requests' = [requests EXCEPT ![r] =
            [req EXCEPT !.stage = "save",
                        !.filename = GetUniqueFilename(outputDir, actualPrefix,
                                                       req.globalCounter, TRUE),
                        !.globalCounter = req.globalCounter + 1]]
       /\ UNCHANGED <<engine, outputDir, browser>>

\* await saveFile(compressed, filename); after the last part of the image
\* its entry is pushed to results.
SaveFile(r) ==
    LET req == requests[r]
        processedFiles == Append(req.processedFiles, req.filename)
        lastPart == req.part = req.images[req.i].parts
    IN /\ req.stage = "save"
       /\ outputDir' = outputDir \cup { req.filename }
       /\ requests' = [requests EXCEPT ![r] =
            IF lastPart
              THEN [req EXCEPT !.stage = "image", !.i = req.i + 1, !.part = 1,
                               !.filename = <<>>, !.processedFiles = <<>>,
                               !.results = Append(req.results,
                                   [image |-> req.i, processed |-> processedFiles,
                                    error |-> FALSE])]
              ELSE [req EXCEPT !.stage = "name", !.part = req.part + 1,
                               !.filename = <<>>, !.processedFiles = processedFiles]]
       /\ UNCHANGED <<engine, browser>>

\* res.json({ success: true, results }) after the loop.
Respond(r) ==
    LET req == requests[r]
    IN /\ req.stage = "image"
       /\ req.i > Len(req.images)
       /\ requests' = [requests EXCEPT ![r] =
            [req EXCEPT !.stage = "closed",
                        !.response = << [status |-> 200, results |-> req.results] >>]]
       /\ UNCHANGED <<engine, outputDir, browser>>

NextServer ==
    \E r \in RequestIds :
        \/ BeginRequest(r)
        \/ ProcessImage(r)
        \/ NameFile(r)
        \/ SaveFile(r)
        \/ Respond(r)

SpecServer == InitServer /\ [][NextServer]_vars

(***************************************************************************)
(* Properties of the batch endpoints.                                      *)
(***************************************************************************)
IsClosed(r) == requests[r].stage = "closed"
Response(r) == requests[r].response[1]
RunsAlone(r) == \A q \in RequestIds \ {r} : requests[q].stage = "idle"

\* The images of the batch that are not skipped.
AttemptedImages(r) ==
    { i \in 1..Len(requests[r].images) : requests[r].images[i].outcome # "skipped" }

\* The entries of the response that belong to image i.
EntriesOf(r, i) ==
    { k \in 1..Len(Response(r).results) : Response(r).results[k].image = i }

\* C17: in every batch endpoint a failure on one image does not abort the
\* remaining images and the response reports it alongside the successes:
\* every image of the batch that is not skipped has exactly one entry.
C17_EveryImageReported ==
    \A r \in RequestIds :
        IsClosed(r) => \A i \in AttemptedImages(r) : Cardinality(EntriesOf(r, i)) = 1

\* POST /api/process does report every image; POST /api/color-match
\* reports exactly the images that succeeded; POST /api/layer-process
\* answers 500 without results exactly when a visible layer fails.
C17_ReportedPerEndpoint ==
    \A r \in RequestIds :
        IsClosed(r) =>
            LET req == requests[r]
                failed == { i \in AttemptedImages(r) : req.images[i].outcome = "fails" }
            IN /\ req.endpoint = "process" =>
                    /\ Response(r).status = 200
                    /\ \A i \in AttemptedImages(r) :
                         /\ Cardinality(EntriesOf(r, i)) = 1
                         /\ \A k \in EntriesOf(r, i) :
                              Response(r).results[k].error = (i \in failed)
               /\ req.endpoint = "color-match" =>
                    /\ Response(r).status = 200
                    /\ \A i \in AttemptedImages(r) :
                         Cardinality(EntriesOf(r, i)) = (IF i \in failed THEN 0 ELSE 1)
               /\ req.endpoint = "layer-process" =>
                    IF failed = {}
                      THEN /\ Response(r).status = 200
                           /\ \A i \in AttemptedImages(r) : Cardinality(EntriesOf(r, i)) = 1
                      ELSE Response(r) = [status |-> 500, results |-> <<>>]

\* A batch of /api/process whose first image fails and whose second succeeds.
C17_WitnessProcess ==
    \E r \in RequestIds :
        /\ IsClosed(r) /\ requests[r].endpoint = "process"
        /\ Len(requests[r].images) = 2
        /\ requests[r].images[1].outcome = "fails"
        /\ requests[r].images[2].outcome = "ok"
        /\ Len(Response(r).results) = 2
        /\ Response(r).results[1].error /\ ~Response(r).results[2].error

\* A batch of /api/color-match whose first image fails: one entry for two
\* images.
C17_WitnessColorMatch ==
    \E r \in RequestIds :
        /\ IsClosed(r) /\ requests[r].endpoint = "color-match"
        /\ Len(requests[r].images) = 2
        /\ requests[r].images[1].outcome = "fails"
        /\ requests[r].images[2].outcome = "ok"
        /\ Len(Response(r).results) = 1

\* A batch of /api/layer-process whose first layer fails: the second layer
\* is never processed.
C17_WitnessLayerAbort ==
    \E r \in RequestIds :
        /\ IsClosed(r) /\ requests[r].endpoint = "layer-process"
        /\ Len(requests[r].images) = 2
        /\ requests[r].images[1].outcome = "fails"
        /\ requests[r].images[2].outcome = "ok"
        /\ requests[r].i = 1
        /\ Response(r).status = 500

\* C18: with sequential numbering file names never collide, for any
\* interleaving of requests: no saveFile writes to a name that exists in the
\* output directory or that another request in flight has been given.
C18_NamesNeverCollide ==
    \A r \in RequestIds :
        requests[r].stage = "save" =>
            /\ requests[r].filename \notin outputDir
            /\ \A q \in RequestIds \ {r} :
                 requests[q].stage = "save" => requests[q].filename # requests[r].filename

\* A request that runs alone never writes to a name that exists.
C18_AloneNeverCollides ==
    \A r \in RequestIds :
        (requests[r].stage = "save" /\ RunsAlone(r)) =>
            requests[r].filename \notin outputDir

C18_WitnessAlone ==
    \E r \in RequestIds :
        /\ requests[r].stage = "save" /\ RunsAlone(r)
        /\ requests[r].files # {}
        /\ requests[r].i = 2

\* Two requests with the same prefix hold the same file name, both about to
\* write it.
C18_WitnessCollision ==
    /\ requests["A"].stage = "save" /\ requests["B"].stage = "save"
    /\ requests["A"].filename = requests["B"].filename

\* The files a closed request wrote, in the order it wrote them.
RECURSIVE WrittenFiles(_)
WrittenFiles(results) ==
    IF results = <<>> THEN <<>>
    ELSE Head(results).processed \o WrittenFiles(Tail(results))

\* The first file of a sequence of files that carries the prefix.
FirstWithPrefix(files, prefix) ==
    files[CHOOSE k \in 1..Len(files) :
              /\ files[k][1] = prefix
              /\ \A j \in 1..(k - 1) : files[j][1] # prefix]

PrefixesWritten(files) == { files[k][1] : k \in 1..Len(files) }

HoldsNumbered(files, prefix) == \E file \in files : Len(file) = 2 /\ file[1] = prefix

\* A batch of /api/process that ran alone and is answered.
IsAnsweredProcess(r) ==
    /\ IsClosed(r) /\ RunsAlone(r)
    /\ requests[r].endpoint = "process"

\* C19: with sequential numbering, for each prefix of a batch for which the
\* output directory holds no prefix_N.png, the first file written for that
\* prefix is prefix_1.png.
C19_EveryPrefixStartsAtOne ==
    \A r \in RequestIds :
        IsAnsweredProcess(r) =>
            LET written == WrittenFiles(Response(r).results)
            IN \A prefix \in PrefixesWritten(written) :
                   ~HoldsNumbered(requests[r].files, prefix) =>
                       FirstWithPrefix(written, prefix) = NumberedFilename(prefix, 1)

\* The numbers run across the prefixes of a batch: into a directory without
\* files of the batch's prefixes the k-th file written carries the number k.
C19_NumbersRunAcrossPrefixes ==
    \A r \in RequestIds :
        IsAnsweredProcess(r) =>
            LET written == WrittenFiles(Response(r).results)
            IN (\A prefix \in Prefixes : ~HoldsNumbered(requests[r].files, prefix)) =>
                   \A k \in 1..Len(written) : written[k][2] = k

\* One image split with prefix icon into the empty directory.
C19_WitnessSplit ==
    \E r \in RequestIds :
        /\ IsAnsweredProcess(r)
        /\ requests[r].files = {}
        /\ WrittenFiles(Response(r).results) =
               << NumberedFilename("icon", 1), NumberedFilename("icon", 2),
                  NumberedFilename("icon", 3), NumberedFilename("icon", 4) >>

\* Two images with the prefixes icon and logo into the empty directory.
C19_WitnessSecondPrefix ==
    \E r \in RequestIds :
        /\ IsAnsweredProcess(r)
        /\ requests[r].files = {}
        /\ WrittenFiles(Response(r).results) =
               << NumberedFilename("icon", 1), NumberedFilename("logo", 2) >>

(***************************************************************************)
(* The strategy of analyzeImageContent.                                    *)
(***************************************************************************)
LowChannelPng(img) == img.format = "png" /\ img.channels <= 2

\* C20: analyzeImageContent takes the alpha strategy when the buffer has a
\* transparency channel, otherwise the indexed strategy for a PNG of at
\* most two channels, otherwise the colour strategy; when the indexed
\* strategy fails no failure is returned and the result is that of the
\* colour strategy.
C20_StrategyPriority ==
    IsAnalyzeCall =>
        LET img == call.buffer
        IN /\ ret.kind = "bounds"
           /\ img.hasAlpha =>
                /\ ret.strategy = "alpha"
                /\ ret.bounds = AnalyzeAlphaContent(img, call.tolerance)
           /\ (~img.hasAlpha /\ LowChannelPng(img) /\ ~call.indexedFails) =>
                /\ ret.strategy = "indexed"
                /\ ret.bounds = AnalyzeIndexedContent(img, call.tolerance)
           /\ (~img.hasAlpha /\ LowChannelPng(img) /\ call.indexedFails) =>
                /\ ret.strategy = "color"
                /\ ret.bounds = AnalyzeColorContent(img, call.tolerance)
           /\ (~img.hasAlpha /\ ~LowChannelPng(img)) =>
                /\ ret.strategy = "color"
                /\ ret.bounds = AnalyzeColorContent(img, call.tolerance)

\* C20 witness: the indexed strategy fails on a greyscale PNG and the
\* colour strategy's result, which differs from the indexed one, is returned.
C20_WitnessFallThrough ==
    /\ IsAnalyzeCall
    /\ ~call.buffer.hasAlpha /\ LowChannelPng(call.buffer) /\ call.indexedFails
    /\ ret.bounds = AnalyzeColorContent(call.buffer, call.tolerance)
    /\ ret.bounds # AnalyzeIndexedContent(call.buffer, call.tolerance)

\* A PNG of two channels with a transparency channel meets the conditions
\* of strategies 1 and 2 and is given to strategy 1.
C20_WitnessAlphaFirst ==
    /\ IsAnalyzeCall
    /\ call.buffer.hasAlpha /\ LowChannelPng(call.buffer)
    /\ ret.strategy = "alpha"
    /\ ret.bounds.hasContent

(***************************************************************************)
(* The presets of the layer editor.                                        *)
(*                                                                         *)
(* editor.layers are the three slots (Undefined for an empty slot),        *)
(* editor.layerPresets is the array kept under 'layerPresets' in           *)
(* localStorage: a field that JSON.stringify drops is Undefined.  scale is *)
(* in hundredths.  The guide sizes and the layer names of a preset play no *)
(* part in the layer settings and are left out.  Two fields are history:   *)
(* editor.savedWith holds, for each preset name, the slots as they were    *)
(* when the preset was saved, editor.loaded the preset loaded last while   *)
(* the layers have not been touched since.                                 *)
(***************************************************************************)
LayerSlots == 1..3
PresetNames == { "a", "b" }

\* The layer loadLayer creates (initial scale 1), a layer with every
\* setting changed, and a hidden layer.
DefaultLayer ==
    [visible |-> TRUE, scale |-> 100, x |-> 0, y |-> 0, cropEnabled |-> FALSE,
     cropX |-> 0, cropY |-> 0, cropWidth |-> 100, cropHeight |-> 100]
CroppedLayer ==
    [visible |-> TRUE, scale |-> 150, x |-> -20, y |-> 15, cropEnabled |-> TRUE,
     cropX |-> 10, cropY |-> 20, cropWidth |-> 50, cropHeight |-> 60]
HiddenLayer ==
    [visible |-> FALSE, scale |-> 50, x |-> 0, y |-> 0, cropEnabled |-> FALSE,
     cropX |-> 0, cropY |-> 0, cropWidth |-> 100, cropHeight |-> 100]
\* The settings tried in each slot; the third slot stays empty.
LayerSettings(index) ==
    IF index = 1 THEN { CroppedLayer, HiddenLayer }
    ELSE IF index = 2 THEN { DefaultLayer }
    ELSE {}

\* value || fallback for an optional number and an optional boolean.
NumberOr(value, fallback) ==
    IF value = Undefined \/ value[1] = 0 THEN fallback ELSE value[1]
BooleanOr(value, fallback) ==
    IF value = Undefined \/ ~value[1] THEN fallback ELSE value[1]

\* value !== undefined ? value : fallback
DefinedOr(value, fallback) == IF value # Undefined THEN value[1] ELSE fallback

\* layer?.field of a slot
FieldOf(layer, field) == IF layer = Undefined THEN Undefined ELSE Some(layer[1][field])

\* The entry savePreset writes for one slot.
PresetLayerOf(layer) ==
    [visible |-> Some(BooleanOr(FieldOf(layer, "visible"), FALSE)),
     scale |-> Some(NumberOr(FieldOf(layer, "scale"), 100)),
     x |-> Some(NumberOr(FieldOf(layer, "x"), 0)),
     y |-> Some(NumberOr(FieldOf(layer, "y"), 0)),
     cropEnabled |-> Some(BooleanOr(FieldOf(layer, "cropEnabled"), FALSE)),
     cropX |-> Some(NumberOr(FieldOf(layer, "cropX"), 0)),
     cropY |-> Some(NumberOr(FieldOf(layer, "cropY"), 0)),
     cropWidth |-> Some(NumberOr(FieldOf(layer, "cropWidth"), 100)),
     cropHeight |-> Some(NumberOr(FieldOf(layer, "cropHeight"), 100))]

\* migratePreset: every layer is rebuilt from visible, scale, x, y and
\* layerName; the rebuilt layer has no crop fields.
MigratePreset(preset) ==
    [name |-> preset.name,
     layers |-> [i \in DOMAIN preset.layers |->
         [visible |-> Some(DefinedOr(preset.layers[i].visible, TRUE)),
          scale |-> Some(DefinedOr(preset.layers[i].scale, 100)),
          x |-> Some(DefinedOr(preset.layers[i].x, 0)),
          y |-> Some(DefinedOr(preset.layers[i].y, 0)),
          cropEnabled |-> Undefined, cropX |-> Undefined, cropY |-> Undefined,
          cropWidth |-> Undefined, cropHeight |-> Undefined]]]

\* getSavedPresets: the stored array, every preset migrated.
GetSavedPresets(layerPresets) ==
    [k \in DOMAIN layerPresets |-> MigratePreset(layerPresets[k])]

\* findIndex(p => p.name === name): 0 when there is none.
FindPreset(presets, name) ==
    IF \E k \in DOMAIN presets : presets[k].name = name
      THEN CHOOSE k \in DOMAIN presets :
               presets[k].name = name /\ \A j \in 1..(k - 1) : presets[j].name # name
      ELSE 0

\* filter(p => p.name !== name)
RECURSIVE WithoutPreset(_, _)
WithoutPreset(presets, name) ==
    IF presets = <<>> THEN <<>>
    ELSE IF Head(presets).name = name THEN WithoutPreset(Tail(presets), name)
    ELSE <<Head(presets)>> \o WithoutPreset(Tail(presets), name)

\* What loadPreset makes of a loaded layer.
ApplyPresetLayer(layer, presetLayer) ==
    [layer EXCEPT
        !.visible = presetLayer.visible[1],
        !.scale = presetLayer.scale[1],
        !.x = presetLayer.x[1],
        !.y = presetLayer.y[1],
        !.cropEnabled = BooleanOr(presetLayer.cropEnabled, FALSE),
        !.cropX = NumberOr(presetLayer.cropX, 0),
        !.cropY = NumberOr(presetLayer.cropY, 0),
        !.cropWidth = NumberOr(presetLayer.cropWidth, 100),
        !.cropHeight = NumberOr(presetLayer.cropHeight, 100)]

InitEditor ==
    /\ pc = "idle" /\ call = NoCall /\ ret = NoRet
    /\ outputDir = {} /\ requests = [r \in RequestIds |-> NoRequest]
    /\ eventBus = Unused /\ component = Unused /\ matcher = Unused
    /\ editor = [layers |-> [i \in LayerSlots |-> Undefined],
                 layerPresets |-> <<>>,
                 savedWith |-> [name \in PresetNames |-> Undefined],
                 loaded |-> Undefined]

\* loadLayer and the controls of a layer: the slot holds a layer with the
\* given settings.
UpdateLayer(index) ==
    /\ \E settings \in LayerSettings(index) :
         editor' = [editor EXCEPT !.layers[index] = Some(settings), !.loaded = Undefined]
    /\ UNCHANGED <<engine, server, eventBus, component, matcher>>

\* removeLayer
RemoveLayer(index) ==
    /\ editor.layers[index] # Undefined
    /\ editor' = [editor EXCEPT !.layers[index] = Undefined, !.loaded = Undefined]
    /\ UNCHANGED <<engine, server, eventBus, component, matcher>>

\* savePreset with the given name in the name field; the user confirms or
\* refuses to overwrite a preset of that name.
SavePreset(presetName) ==
    /\ \E confirmed \in BOOLEAN :
         LET preset == [name |-> presetName,
                        layers |-> [i \in LayerSlots |-> PresetLayerOf(editor.layers[i])]]
             savedPresets == GetSavedPresets(editor.layerPresets)
             existingIndex == FindPreset(savedPresets, presetName)
         IN IF existingIndex > 0 /\ ~confirmed
              THEN UNCHANGED editor
              ELSE editor' = [editor EXCEPT
                       !.layerPresets =
                           IF existingIndex > 0
                             THEN [savedPresets EXCEPT ![existingIndex] = preset]
                             ELSE Append(savedPresets, preset),
                       !.savedWith[presetName] = Some(editor.layers)]
    /\ UNCHANGED <<engine, server, eventBus, component, matcher>>

\* loadPreset with the given name selected in the list.
LoadPreset(presetName) ==
    LET savedPresets == GetSavedPresets(editor.layerPresets)
        index == FindPreset(savedPresets, presetName)
    IN /\ index > 0
       /\ editor' = [editor EXCEPT
              !.layers = [i \in LayerSlots |->
                  IF editor.layers[i] # Undefined
                    THEN Some(ApplyPresetLayer(editor.layers[i][1],
                                               savedPresets[index].layers[i]))
                    ELSE Undefined],
              !.loaded = Some(presetName)]
       /\ UNCHANGED <<engine, server, eventBus, component, matcher>>

\* deletePreset with the given name selected, confirmed.
DeletePreset(presetName) ==
    /\ FindPreset(editor.layerPresets, presetName) > 0
    /\ editor' = [editor EXCEPT
           !.layerPresets = WithoutPreset(GetSavedPresets(editor.layerPresets), presetName),
           !.savedWith[presetName] = Undefined,
           !.loaded = IF editor.loaded = Some(presetName) THEN Undefined ELSE editor.loaded]
    /\ UNCHANGED <<engine, server, eventBus, component, matcher>>

NextEditor ==
    \/ \E index \in LayerSlots : UpdateLayer(index)
    \/ \E index \in LayerSlots : RemoveLayer(index)
    \/ \E presetName \in PresetNames : SavePreset(presetName)
    \/ \E presetName \in PresetNames : LoadPreset(presetName)
    \/ \E presetName \in PresetNames : DeletePreset(presetName)

SpecEditor == InitEditor /\ [][NextEditor]_vars

(***************************************************************************)
(* Properties of the presets.                                              *)
(***************************************************************************)
\* The slots that hold a layer now and held one when the loaded preset was
\* saved.
RestoredSlots ==
    IF editor.loaded = Undefined THEN {}
    ELSE { i \in LayerSlots :
             /\ editor.layers[i] # Undefined
             /\ editor.savedWith[editor.loaded[1]][1][i] # Undefined }

SavedLayer(i) == editor.savedWith[editor.loaded[1]][1][i][1]

\* C21: after savePreset(name) and, later, loadPreset(name), every loaded
\* layer has the visible, scale, x, y and crop settings it had when the
\* preset was saved.
C21_PresetRestoresLayers ==
    \A i \in RestoredSlots : editor.layers[i][1] = SavedLayer(i)

\* visible, scale, x and y are restored; the crop settings are reset to no
\* crop whatever they were.
C21_PresetRestoresAllButCrop ==
    \A i \in RestoredSlots :
        LET layer == editor.layers[i][1]
        IN /\ layer.visible = SavedLayer(i).visible
           /\ layer.scale = SavedLayer(i).scale
           /\ layer.x = SavedLayer(i).x
           /\ layer.y = SavedLayer(i).y
           /\ ~layer.cropEnabled
           /\ layer.cropX = 0 /\ layer.cropY = 0
           /\ layer.cropWidth = 100 /\ layer.cropHeight = 100

\* A preset saved with a cropped layer is loaded onto a layer that was
\* changed in between.
C21_WitnessCropLost ==
    /\ editor.loaded = Some("a")
    /\ 1 \in RestoredSlots
    /\ SavedLayer(1) = CroppedLayer
    /\ editor.layers[1][1] = [CroppedLayer EXCEPT !.cropEnabled = FALSE, !.cropX = 0,
                                 !.cropY = 0, !.cropWidth = 100, !.cropHeight = 100]

(***************************************************************************)
(* The options POST /api/process hands to the image processor.             *)
(*                                                                         *)
(* An option of the request body is a record of optional fields, as        *)
(* JSON.parse leaves them.  The call answers with the autoTrimOptions and  *)
(* cropOptions the handler builds (Undefined when the step is off) and     *)
(* with the position it passes to cropToAspectRatio in aspect-crop mode.   *)
(***************************************************************************)
AutoTrimOptionsOf(option) ==
    IF option.autoTrim
      THEN Some([padding |-> NumberOr(option.autoTrimPadding, 0),
                 tolerance |-> NumberOr(option.autoTrimTolerance, 100)])
      ELSE Undefined

SmartCropOptionsOf(option) ==
    IF option.smartCrop
      THEN Some([padding |-> NumberOr(option.cropPadding, 20),
                 tolerance |-> NumberOr(option.cropTolerance, 10)])
      ELSE Undefined

AspectPositionOf(option) ==
    [positionX |-> NumberOr(option.cropPositionX, 50),
     positionY |-> NumberOr(option.cropPositionY, 50)]

OptionalPercent == { Undefined, Some(0), Some(30), Some(100) }
OptionalAmount == { Undefined, Some(0), Some(5) }

ProcessOptions ==
    [autoTrim : BOOLEAN, autoTrimPadding : OptionalAmount,
     autoTrimTolerance : OptionalAmount,
     smartCrop : BOOLEAN, cropPadding : OptionalAmount,
     cropTolerance : OptionalAmount,
     cropPositionX : OptionalPercent, cropPositionY : OptionalPercent]

\* One image of a request in aspect-crop mode, up to the calls on the
\* image processor.
ProcessOptionsCall ==
    /\ pc = "idle"
    /\ \E option \in ProcessOptions :
         /\ call' = [op |-> "processOptions", option |-> option]
         /\ ret' = [kind |-> "processorOptions",
                    autoTrimOptions |-> AutoTrimOptionsOf(option),
                    cropOptions |-> SmartCropOptionsOf(option),
                    aspect |-> AspectPositionOf(option)]
    /\ pc' = "done"
    /\ UNCHANGED <<server, browser>>

NextOptions == ProcessOptionsCall

SpecOptions == Init /\ [][NextOptions]_vars

(***************************************************************************)
(* Properties of the processor options.                                    *)
(***************************************************************************)
IsOptionsCall == pc = "done" /\ call.op = "processOptions"

\* The value passed for an optional field is the explicit one.
PassedAsSet(field, passed) == field # Undefined => passed = field[1]

\* The value passed is the explicit one unless that is 0 or absent, and
\* the default then.
PassedOrDefault(field, passed, default) ==
    IF field # Undefined /\ field[1] # 0 THEN passed = field[1] ELSE passed = default

\* C22: a default is applied only when the request omits the option: an
\* explicit cropPositionX, cropPositionY, cropPadding, cropTolerance or
\* autoTrimTolerance, 0 included, is the value passed to the image
\* processor.
C22_ExplicitOptionsPassed ==
    IsOptionsCall =>
        /\ PassedAsSet(call.option.cropPositionX, ret.aspect.positionX)
        /\ PassedAsSet(call.option.cropPositionY, ret.aspect.positionY)
        /\ call.option.smartCrop =>
             /\ PassedAsSet(call.option.cropPadding, ret.cropOptions[1].padding)
             /\ PassedAsSet(call.option.cropTolerance, ret.cropOptions[1].tolerance)
        /\ call.option.autoTrim =>
             PassedAsSet(call.option.autoTrimTolerance, ret.autoTrimOptions[1].tolerance)

\* Every explicit value other than 0 is passed on; an absent option and an
\* explicit 0 alike give the default (50, 50, 20, 10, 100).
C22_ZeroGivesDefault ==
    IsOptionsCall =>
        /\ PassedOrDefault(call.option.cropPositionX, ret.aspect.positionX, 50)
        /\ PassedOrDefault(call.option.cropPositionY, ret.aspect.positionY, 50)
        /\ call.option.smartCrop =>
             /\ PassedOrDefault(call.option.cropPadding, ret.cropOptions[1].padding, 20)
             /\ PassedOrDefault(call.option.cropTolerance, ret.cropOptions[1].tolerance, 10)
        /\ call.option.autoTrim =>
             PassedOrDefault(call.option.autoTrimTolerance,
                             ret.autoTrimOptions[1].tolerance, 100)

\* A request for the left edge is cropped at the centre.
C22_WitnessLeftEdge ==
    /\ IsOptionsCall
    /\ call.option.cropPositionX = Some(0)
    /\ call.option.cropPositionY = Some(100)
    /\ ret.aspect = [positionX |-> 50, positionY |-> 100]

(***************************************************************************)
(* The sampling of analyzeImage.                                           *)
(*                                                                         *)
(* The call answers with the step, with the number of pixels the loop      *)
(* "for (i = 0; i < pixelCount; i += sampleStep)" reads, and with the      *)
(* divisor of the means.  The pixel values play no part in the three.      *)
(***************************************************************************)
SampleLimit == 10000

\* Math.max(1, Math.floor(pixelCount / 10000))
SampleStep(pixelCount) == Max2(1, pixelCount \div SampleLimit)

\* The iterations of the loop: i = 0, sampleStep, 2 * sampleStep, ... below
\* pixelCount.
SamplesRead(pixelCount) ==
    IF pixelCount <= 0 THEN 0 ELSE (pixelCount - 1) \div SampleStep(pixelCount) + 1

\* Math.ceil(pixelCount / sampleStep)
SampleCount(pixelCount) ==
    (pixelCount + SampleStep(pixelCount) - 1) \div SampleStep(pixelCount)

AnalyzedSides == { 1, 2, 3, 7, 50, 99, 100, 101, 128, 199, 200, 1000, 1920, 4000 }

AnalyzeImageCall ==
    /\ pc = "idle"
    /\ \E width \in AnalyzedSides, height \in AnalyzedSides :
         /\ call' = [op |-> "analyzeImage", width |-> width, height |-> height]
         /\ ret' = [kind |-> "samples",
                    sampleStep |-> SampleStep(width * height),
                    samplesRead |-> SamplesRead(width * height),
                    sampleCount |-> SampleCount(width * height)]
    /\ pc' = "done"
    /\ UNCHANGED <<server, browser>>

NextAnalyze == AnalyzeImageCall

SpecAnalyze == Init /\ [][NextAnalyze]_vars

(***************************************************************************)
(* Properties of the sampling.                                             *)
(***************************************************************************)
IsAnalyzeImageCall == pc = "done" /\ call.op = "analyzeImage"

\* C23: for every image size analyzeImage reads at most 10,000 pixel
\* samples, and the divisor of the means is the number of pixels sampled.
C23_AtMostTenThousandSamples ==
    IsAnalyzeImageCall =>
        /\ ret.samplesRead <= SampleLimit
        /\ ret.sampleCount = ret.samplesRead

\* The divisor is the number of pixels sampled, and that number stays
\* below twice the limit.
C23_BelowTwiceTheLimit ==
    IsAnalyzeImageCall =>
        /\ ret.samplesRead < 2 * SampleLimit
        /\ ret.sampleCount = ret.samplesRead

\* An image of 19,900 pixels is read whole.
C23_WitnessReadWhole ==
    /\ IsAnalyzeImageCall
    /\ call.width = 199 /\ call.height = 100
    /\ ret.sampleStep = 1
    /\ ret.samplesRead = 19900

(***************************************************************************)
(* The export of the layers.                                               *)
(*                                                                         *)
(* exportLayers uploads the files of the loaded slots and one              *)
(* transformation per slot; POST /api/layer-process pairs them by index.   *)
(* A file is named by the slot it was loaded into, a transformation        *)
(* carries the slot it was made for.  The call answers with the results of *)
(* the response: the file processed and the transformation used.  The      *)
(* image processor and the file system are taken not to fail.              *)
(***************************************************************************)
ExportSettings ==
    { DefaultLayer, CroppedLayer, HiddenLayer, [DefaultLayer EXCEPT !.scale = 50] }

\* this.layers.filter(layer => layer !== null).map(layer => layer.file)
RECURSIVE ActiveFiles(_, _)
ActiveFiles(layers, index) ==
    IF index > Len(layers) THEN <<>>
    ELSE IF layers[index] # Undefined
      THEN <<index>> \o ActiveFiles(layers, index + 1)
      ELSE ActiveFiles(layers, index + 1)

\* this.layers.map((layer, index) => ...): null for an empty slot.
TransformationsOf(layers) ==
    [index \in DOMAIN layers |->
        IF layers[index] = Undefined THEN Undefined
        ELSE Some([slot |-> index, settings |-> layers[index][1]])]

\* The loop of POST /api/layer-process over the uploaded files.
RECURSIVE LayerProcess(_, _, _)
LayerProcess(files, transformations, i) ==
    IF i > Len(files) THEN <<>>
    ELSE LET transformation ==
                 IF i \in DOMAIN transformations THEN transformations[i] ELSE Undefined
         IN IF transformation = Undefined \/ ~transformation[1].settings.visible
              THEN LayerProcess(files, transformations, i + 1)
              ELSE <<[file |-> files[i], transformation |-> transformation[1]]>>
                       \o LayerProcess(files, transformations, i + 1)

ExportLayersCall ==
    /\ pc = "idle"
    /\ \E layers \in [LayerSlots -> {Undefined} \cup { Some(l) : l \in ExportSettings }] :
         /\ \E index \in LayerSlots : layers[index] # Undefined
         /\ call' = [op |-> "exportLayers", layers |-> layers]
         /\ ret' = [kind |-> "layerResults",
                    results |-> LayerProcess(ActiveFiles(layers, 1),
                                             TransformationsOf(layers), 1)]
    /\ pc' = "done"
    /\ UNCHANGED <<server, browser>>

NextExport == ExportLayersCall

SpecExport == Init /\ [][NextExport]_vars

(***************************************************************************)
(* Properties of the export.                                               *)
(***************************************************************************)
IsExportCall == pc = "done" /\ call.op = "exportLayers"

\* The results for the file of a slot.
ResultsOfSlot(index) ==
    { k \in DOMAIN ret.results : ret.results[k].file = index }

\* The slot's file gives exactly one output, made with the slot's settings.
ExportedWithOwnSettings(index) ==
    /\ Cardinality(ResultsOfSlot(index)) = 1
    /\ \A k \in ResultsOfSlot(index) :
         ret.results[k].transformation =
             [slot |-> index, settings |-> call.layers[index][1]]

\* No slot is empty below a loaded one.
LoadedFromTheFirstSlot ==
    \A index \in LayerSlots :
        call.layers[index] # Undefined =>
            \A lower \in 1..(index - 1) : call.layers[lower] # Undefined

\* C24: for every configuration of the three slots, every loaded visible
\* layer is processed exactly once, with the transformation of its own
\* slot.
C24_EveryLayerWithOwnSlot ==
    IsExportCall =>
        \A index \in LayerSlots :
            (call.layers[index] # Undefined /\ call.layers[index][1].visible)
                => ExportedWithOwnSettings(index)

\* When the slots are filled from the first on, every loaded visible layer
\* is processed once with its own transformation and no other file is.
C24_OwnSlotWhenFilledInOrder ==
    (IsExportCall /\ LoadedFromTheFirstSlot) =>
        \A index \in LayerSlots :
            IF call.layers[index] # Undefined /\ call.layers[index][1].visible
              THEN ExportedWithOwnSettings(index)
              ELSE ResultsOfSlot(index) = {}

\* The file uploaded first is always paired with the transformation of
\* slot 1, the second with that of slot 2.
C24_PairedByUploadIndex ==
    IsExportCall =>
        \A k \in DOMAIN ret.results :
            LET files == ActiveFiles(call.layers, 1)
            IN \E i \in DOMAIN files :
                 /\ ret.results[k].file = files[i]
                 /\ ret.results[k].transformation.slot = i

\* Two layers in slots 1 and 2, the first hidden: one output, of slot 2.
C24_WitnessInOrder ==
    /\ IsExportCall
    /\ call.layers = <<Some(HiddenLayer), Some(CroppedLayer), Undefined>>
    /\ ret.results = <<[file |-> 2,
                        transformation |-> [slot |-> 2, settings |-> CroppedLayer]]>>

\* Layers in slots 2 and 3 only: the file of slot 3 is processed with the
\* transformation of slot 2, the file of slot 2 is skipped.
C24_WitnessShifted ==
    /\ IsExportCall
    /\ call.layers = <<Undefined, Some(CroppedLayer), Some(DefaultLayer)>>
    /\ ret.results = <<[file |-> 3,
                        transformation |-> [slot |-> 2, settings |-> CroppedLayer]]>>

(***************************************************************************)
(* The file names of the four parts of a split image.                      *)
(*                                                                         *)
(* One image of POST /api/process in mode split or split-resize, handled   *)
(* while no other request runs.  A saved file is its name and its content: *)
(* the index of the part, "old" for a file that was there before.          *)
(* `${prefix}_${partSuffix}.png` is the tuple <<prefix, "part", suffix>>.  *)
(***************************************************************************)
partNames == <<"tl", "tr", "bl", "br">>

SuffixedFilename(prefix, partSuffix) == <<prefix, "part", partSuffix>>

\* getUniqueFilename(prefix, startNumber, useNumbering, partSuffix)
GetUniqueFilenameOfPart(files, prefix, startNumber, useNumbering, partSuffix) ==
    IF ~useNumbering /\ partSuffix # Undefined
      THEN SuffixedFilename(prefix, partSuffix[1])
      ELSE GetUniqueFilename(files, prefix, startNumber, useNumbering)

\* path.parse(originalName).name, and `${prefix}_${nameWithoutExt}`
NameWithoutExt(originalName) == IF originalName = "photo.jpg" THEN "photo" ELSE originalName
PrefixedName(prefix, name) ==
    IF prefix = "icon" /\ name = "photo" THEN "icon_photo" ELSE name

\* The prefix the handler uses for the files of an image.
ActualPrefix(option) ==
    IF option.useOriginalFileNames /\ option.originalName # ""
      THEN NameWithoutExt(option.originalName)
    ELSE IF option.combineWithOriginalName /\ option.originalName # ""
      THEN IF option.prefix # ""
             THEN PrefixedName(option.prefix, NameWithoutExt(option.originalName))
             ELSE NameWithoutExt(option.originalName)
    ELSE option.prefix

FilenamesOf(saved) == { file.filename : file \in saved }

\* fs.writeFile: the file has the new content.
WriteFile(saved, filename, content) ==
    { file \in saved : file.filename # filename }
        \cup { [filename |-> filename, content |-> content] }

\* The loop over the parts from part j on: the names given and the files
\* saved.
RECURSIVE SaveParts(_, _, _, _, _)
SaveParts(option, j, globalCounter, saved, filenames) ==
    IF j > Len(partNames) THEN [filenames |-> filenames, saved |-> saved]
    ELSE LET unnumbered ==
                 option.useOriginalFileNames \/ option.useSequentialNumbering = Some(FALSE)
             filename ==
                 GetUniqueFilenameOfPart(
                     FilenamesOf(saved), ActualPrefix(option),
                     IF unnumbered THEN 0 ELSE globalCounter,
                     IF option.useOriginalFileNames THEN FALSE
                       ELSE option.useSequentialNumbering # Some(FALSE),
                     IF option.useSequentialNumbering = Some(FALSE)
                           /\ ~option.useOriginalFileNames
                       THEN Some(partNames[j]) ELSE Undefined)
         IN SaveParts(option, j + 1,
                      IF unnumbered THEN globalCounter ELSE globalCounter + 1,
                      WriteFile(saved, filename, j),
                      Append(filenames, filename))

SplitOptions ==
    [mode : { "split", "split-resize" },
     prefix : { "", "icon" },
     originalName : { "", "photo.jpg" },
     useSequentialNumbering : { Undefined, Some(TRUE), Some(FALSE) },
     useOriginalFileNames : BOOLEAN,
     combineWithOriginalName : BOOLEAN]

\* The output directory before the request.
SplitDirs ==
    { {},
      { NumberedFilename("icon", 1), NumberedFilename("icon", 3) },
      { NumberedFilename("photo", 2), PlainFilename("photo") },
      { NumberedFilename("icon_photo", 1), SuffixedFilename("icon", "tr") } }

SplitRequestCall ==
    /\ pc = "idle"
    /\ \E option \in SplitOptions, dir \in SplitDirs :
         LET saved == { [filename |-> filename, content |-> "old"] : filename \in dir }
             globalCounter ==
                 GetNextAvailableNumber(dir, IF option.prefix # "" THEN option.prefix
                                              ELSE "image")
         IN /\ call' = [op |-> "splitRequest", option |-> option, dir |-> dir]
            /\ ret' = [kind |-> "processedFiles"]
                          @@ SaveParts(option, 1, globalCounter, saved, <<>>)
    /\ pc' = "done"
    /\ UNCHANGED <<server, browser>>

NextSplit == SplitRequestCall

SpecSplit == Init /\ [][NextSplit]_vars

(***************************************************************************)
(* Properties of the names of the parts.                                   *)
(***************************************************************************)
IsSplitCall == pc = "done" /\ call.op = "splitRequest"

PartsDistinct ==
    \A j, k \in DOMAIN ret.filenames : j # k => ret.filenames[j] # ret.filenames[k]

PartsExist ==
    \A j \in DOMAIN ret.filenames :
        [filename |-> ret.filenames[j], content |-> j] \in ret.saved

\* C25: in split and split-resize modes the four parts of an image get
\* four pairwise distinct file names, whatever useSequentialNumbering,
\* useOriginalFileNames and combineWithOriginalName are, and all four
\* files of the response exist with their own content.
C25_FourDistinctParts ==
    IsSplitCall => (Len(ret.filenames) = 4 /\ PartsDistinct /\ PartsExist)

\* Without useOriginalFileNames the four names are distinct and the four
\* files exist; with it all four parts are saved under one name and the
\* file holds the last part.
C25_DistinctUnlessOriginalNames ==
    IsSplitCall =>
        /\ Len(ret.filenames) = 4
        /\ IF call.option.useOriginalFileNames
             THEN /\ \A j \in 1..4 :
                       ret.filenames[j] = PlainFilename(ActualPrefix(call.option))
                  /\ [filename |-> ret.filenames[1], content |-> 4] \in ret.saved
             ELSE PartsDistinct /\ PartsExist

\* The four parts of photo.jpg are all saved as photo.png.
C25_WitnessOverwritten ==
    /\ IsSplitCall
    /\ call.option.useOriginalFileNames
    /\ call.dir = {}
    /\ ret.filenames = <<<<"photo">>, <<"photo">>, <<"photo">>, <<"photo">>>>
    /\ ret.saved = { [filename |-> <<"photo">>, content |-> 4] }

\* Numbered parts skip the numbers that are taken.
C25_WitnessNumbered ==
    /\ IsSplitCall
    /\ call.option.prefix = "icon"
    /\ call.dir = { NumberedFilename("icon", 1), NumberedFilename("icon", 3) }
    /\ ret.filenames = << <<"icon", 4>>, <<"icon", 5>>, <<"icon", 6>>, <<"icon", 7>> >>

\* Parts without numbers carry tl, tr, bl, br.
C25_WitnessSuffixed ==
    /\ IsSplitCall
    /\ call.option.useSequentialNumbering = Some(FALSE)
    /\ ret.filenames[2] = SuffixedFilename("icon", "tr")
    /\ [filename |-> SuffixedFilename("icon", "tr"), content |-> 2] \in ret.saved

(***************************************************************************)
(* The rectangles and sizes handed to the codec.                           *)
(*                                                                         *)
(* Three calls, each up to the arguments of the codec's primitive: the     *)
(* four rectangles splitImage extracts, the size autoTrimAndResize resizes *)
(* the trimmed image to, and the rectangle processLayerImageCorrected      *)
(* extracts for a layer with cropEnabled.                                  *)
(***************************************************************************)
\* The quadrants of splitImage: top left, top right, bottom left, bottom
\* right.
SplitQuadrants(width, height) ==
    LET halfWidth == width \div 2
        halfHeight == height \div 2
    IN << [left |-> 0, top |-> 0, width |-> halfWidth, height |-> halfHeight],
          [left |-> halfWidth, top |-> 0, width |-> halfWidth, height |-> halfHeight],
          [left |-> 0, top |-> halfHeight, width |-> halfWidth, height |-> halfHeight],
          [left |-> halfWidth, top |-> halfHeight,
           width |-> halfWidth, height |-> halfHeight] >>

CodecSides == { 1, 2, 3, 7, 64, 513, 1200 }
CropPercents == { 0, 1, 50, 99, 100 }

SplitImageCall ==
    /\ pc = "idle"
    /\ \E width \in CodecSides, height \in CodecSides :
         /\ call' = [op |-> "splitImage", width |-> width, height |-> height]
         /\ ret' = [kind |-> "extract", rects |-> SplitQuadrants(width, height)]
    /\ pc' = "done"
    /\ UNCHANGED <<server, browser>>

\* autoTrimAndResize from the trimmed image on.
ResizeTrimmedCall ==
    /\ pc = "idle"
    /\ \E trimmedWidth \in CodecSides, trimmedHeight \in CodecSides,
          targetWidth \in TargetSides, targetHeight \in TargetSides :
         /\ call' = [op |-> "resizeTrimmed",
                     trimmedWidth |-> trimmedWidth, trimmedHeight |-> trimmedHeight,
                     targetWidth |-> targetWidth, targetHeight |-> targetHeight]
         /\ ret' = [kind |-> "resize",
                    size |-> TrimScaledSize(trimmedWidth, trimmedHeight,
                                            targetWidth, targetHeight)]
    /\ pc' = "done"
    /\ UNCHANGED <<server, browser>>

\* processLayerImageCorrected with cropEnabled, up to the extract.
LayerCropCall ==
    /\ pc = "idle"
    /\ \E buffer \in LayerSources, cropX \in CropPercents, cropY \in CropPercents,
          cropWidth \in CropPercents, cropHeight \in CropPercents :
         LET transformation ==
                 LayerCrop(TRUE, Some(cropX), Some(cropY), Some(cropWidth), Some(cropHeight))
         IN /\ call' = [op |-> "layerCrop", buffer |-> buffer,
                        transformation |-> transformation]
            /\ ret' = [kind |-> "extract",
                       rects |-> <<LayerCropRect(buffer.width, buffer.height,
                                                 transformation)>>]
    /\ pc' = "done"
    /\ UNCHANGED <<server, browser>>

NextCodec == SplitImageCall \/ ResizeTrimmedCall \/ LayerCropCall

SpecCodec == Init /\ [][NextCodec]_vars

(***************************************************************************)
(* Properties of the codec arguments.                                      *)
(***************************************************************************)
IsCodecCall == pc = "done" /\ call.op \in { "splitImage", "resizeTrimmed", "layerCrop" }

\* C26: every rectangle or size handed to extract or resize has width >= 1
\* and height >= 1: the quadrants of splitImage, the scaled size of
\* autoTrimAndResize, the sub-crop of processLayerImageCorrected for every
\* cropX, cropY, cropWidth, cropHeight in [0,100].
C26_CodecSizesPositive ==
    IsCodecCall =>
        IF ret.kind = "resize"
          THEN ret.size.width >= 1 /\ ret.size.height >= 1
          ELSE \A k \in DOMAIN ret.rects :
                   ret.rects[k].width >= 1 /\ ret.rects[k].height >= 1

\* No size is negative.  A quadrant has no width exactly when the image is
\* one pixel wide, and no height alike; the scaled size has the target's
\* width or the target's height; the sub-crop is positive whenever its
\* percentages are at least 50 and it starts at the origin.
C26_SizesNeverNegative ==
    IsCodecCall =>
        CASE call.op = "splitImage" ->
               \A k \in DOMAIN ret.rects :
                   /\ ret.rects[k].width >= 0 /\ ret.rects[k].height >= 0
                   /\ ret.rects[k].width = 0 <=> call.width = 1
                   /\ ret.rects[k].height = 0 <=> call.height = 1
          [] call.op = "resizeTrimmed" ->
               /\ ret.size.width >= 0 /\ ret.size.height >= 0
               /\ \/ ret.size.width = call.targetWidth
                  \/ ret.size.height = call.targetHeight
          [] call.op = "layerCrop" ->
               /\ ret.rects[1].width >= 0 /\ ret.rects[1].height >= 0
               /\ (call.transformation.cropWidth[1] >= 50
                      /\ call.transformation.cropX[1] = 0) => ret.rects[1].width >= 1
               /\ (call.transformation.cropHeight[1] >= 50
                      /\ call.transformation.cropY[1] = 0) => ret.rects[1].height >= 1

\* An image one pixel wide is split into quadrants of no width.
C26_WitnessSplit ==
    /\ IsCodecCall /\ call.op = "splitImage"
    /\ call.width = 1 /\ call.height = 64
    /\ ret.rects[2] = [left |-> 0, top |-> 0, width |-> 0, height |-> 32]

\* A trimmed line of 1200 x 3 is resized to 64 x 0.
C26_WitnessResize ==
    /\ IsCodecCall /\ call.op = "resizeTrimmed"
    /\ call.trimmedWidth = 1200 /\ call.trimmedHeight = 3
    /\ ret.size = [width |-> 64, height |-> 0]

\* A sub-crop that starts at the right edge has no width.
C26_WitnessCrop ==
    /\ IsCodecCall /\ call.op = "layerCrop"
    /\ call.transformation.cropX = Some(100)
    /\ call.transformation.cropWidth = Some(50)
    /\ ret.rects[1].width = 0

(***************************************************************************)
(* The event bus.                                                          *)
(*                                                                         *)
(* One event.  eventBus.listeners is the array of the event: an entry is   *)
(* the function registered, fn, and, for a registration through once, the  *)
(* number of its wrapper (0 for on).  Three functions are registered:      *)
(* "log" returns, "fail" throws, "relay" emits the event again the first   *)
(* time it is called.  emit is synchronous, so a whole emit, nested emits  *)
(* included, is one step.  History: calls counts the invocations of each   *)
(* wrapper, before is the array when the last emit was called, dispatched  *)
(* the invocations of that emit with their nesting depth.                  *)
(***************************************************************************)
MaxListeners == 3
MaxWrappers == 2
MaxEmits == 3

Functions == { "log", "fail", "relay" }

\* off: indexOf and splice, the first entry equal to the callback goes.
RECURSIVE RemoveFirst(_, _)
RemoveFirst(listeners, entry) ==
    IF listeners = <<>> THEN <<>>
    ELSE IF Head(listeners) = entry THEN Tail(listeners)
    ELSE <<Head(listeners)>> \o RemoveFirst(Tail(listeners), entry)

RECURSIVE ForEachListener(_, _, _, _)
RECURSIVE InvokeListener(_, _, _)

\* One call of a listener by emit.  The callback runs; a wrapper of once
\* then calls off for itself, unless the callback threw.  The exception is
\* caught by emit.
InvokeListener(bus, entry, depth) ==
    LET called == [bus EXCEPT
                      !.dispatched = Append(@, [depth |-> depth, entry |-> entry]),
                      !.calls = IF entry.wrapper > 0
                                  THEN [@ EXCEPT ![entry.wrapper] = @ + 1] ELSE @]
        returned == IF entry.fn = "relay" /\ ~bus.relayed
                      THEN ForEachListener([called EXCEPT !.relayed = TRUE], 1,
                                           Len(called.listeners), depth + 1)
                      ELSE called
    IN IF entry.wrapper > 0 /\ entry.fn # "fail"
         THEN [returned EXCEPT !.listeners = RemoveFirst(@, entry)]
         ELSE returned

\* listeners.forEach: the indices below the length the array had at the
\* start are visited in order, an index the array no longer has is not.
ForEachListener(bus, k, length, depth) ==
    IF k > length \/ k > Len(bus.listeners) THEN bus
    ELSE ForEachListener(InvokeListener(bus, bus.listeners[k], depth), k + 1, length, depth)

InitEventBus ==
    /\ pc = "idle" /\ call = NoCall /\ ret = NoRet
    /\ outputDir = {} /\ requests = [r \in RequestIds |-> NoRequest]
    /\ editor = Unused /\ component = Unused /\ matcher = Unused
    /\ eventBus = [listeners |-> <<>>, relayed |-> FALSE,
                   calls |-> [w \in 1..MaxWrappers |-> 0], wrappers |-> 0,
                   emits |-> 0, before |-> <<>>, dispatched |-> <<>>]

\* on(event, fn)
On(fn) ==
    /\ Len(eventBus.listeners) < MaxListeners
    /\ eventBus' = [eventBus EXCEPT !.listeners = Append(@, [fn |-> fn, wrapper |-> 0])]
    /\ UNCHANGED <<engine, server, editor, component, matcher>>

\* once(event, fn): a new wrapper is registered.
Once(fn) ==
    /\ Len(eventBus.listeners) < MaxListeners
    /\ eventBus.wrappers < MaxWrappers
    /\ eventBus' = [eventBus EXCEPT
           !.wrappers = @ + 1,
           !.listeners = Append(@, [fn |-> fn, wrapper |-> eventBus.wrappers + 1])]
    /\ UNCHANGED <<engine, server, editor, component, matcher>>

\* off(event, fn)
Off(fn) ==
    /\ \E k \in DOMAIN eventBus.listeners :
         eventBus.listeners[k] = [fn |-> fn, wrapper |-> 0]
    /\ eventBus' = [eventBus EXCEPT
           !.listeners = RemoveFirst(@, [fn |-> fn, wrapper |-> 0])]
    /\ UNCHANGED <<engine, server, editor, component, matcher>>

\* emit(event)
Emit ==
    /\ eventBus.emits < MaxEmits
    /\ eventBus' = ForEachListener(
           [eventBus EXCEPT !.emits = @ + 1, !.before = eventBus.listeners,
                            !.dispatched = <<>>],
           1, Len(eventBus.listeners), 0)
    /\ UNCHANGED <<engine, server, editor, component, matcher>>

NextEventBus ==
    \/ \E fn \in Functions : On(fn)
    \/ \E fn \in Functions : Once(fn)
    \/ \E fn \in Functions : Off(fn)
    \/ Emit

SpecEventBus == InitEventBus /\ [][NextEventBus]_vars

(***************************************************************************)
(* Properties of the event bus.                                            *)
(***************************************************************************)
\* The wrapper is registered.
Registered(w) == \E k \in DOMAIN eventBus.listeners : eventBus.listeners[k].wrapper = w

\* The function registered with the wrapper, when it was called or is
\* still registered.
WrappedFunctions(w) ==
    { eventBus.listeners[k].fn : k \in { j \in DOMAIN eventBus.listeners :
                                           eventBus.listeners[j].wrapper = w } }
        \cup { eventBus.dispatched[k].entry.fn :
                 k \in { j \in DOMAIN eventBus.dispatched :
                           eventBus.dispatched[j].entry.wrapper = w } }

\* C27: a callback registered with once is invoked at most once over any
\* sequence of emits, also when it throws or emits the event itself, and
\* is not registered after its first invocation.
C27_OnceAtMostOnce ==
    \A w \in 1..MaxWrappers :
        /\ eventBus.calls[w] <= 1
        /\ eventBus.calls[w] >= 1 => ~Registered(w)

\* A callback registered with once that returns without emitting is
\* invoked at most once and is not registered after that; no callback
\* registered with once stays registered after an invocation unless it
\* throws.
C27_OnceWhenReturning ==
    \A w \in 1..MaxWrappers :
        /\ (eventBus.calls[w] >= 1 /\ Registered(w)) => WrappedFunctions(w) = { "fail" }
        /\ eventBus.calls[w] > 1 => WrappedFunctions(w) \subseteq { "fail", "relay" }

\* A wrapper called by the first emit is gone when the second is made.
C27_WitnessReturning ==
    /\ eventBus.emits = 2
    /\ eventBus.calls[1] = 1
    /\ ~Registered(1)
    /\ eventBus.before = <<>>

\* once(fail): called by every emit.
C27_WitnessThrowing ==
    /\ eventBus.calls[1] = 3
    /\ eventBus.listeners = <<[fn |-> "fail", wrapper |-> 1]>>

\* once(relay): called twice by one emit.
C27_WitnessRelay ==
    /\ eventBus.emits = 1
    /\ eventBus.before = <<[fn |-> "relay", wrapper |-> 1]>>
    /\ eventBus.calls[1] = 2

\* The invocations the last emit made itself, in order.
RECURSIVE OuterDispatch(_)
OuterDispatch(dispatched) ==
    IF dispatched = <<>> THEN <<>>
    ELSE IF Head(dispatched).depth = 0
      THEN <<Head(dispatched).entry>> \o OuterDispatch(Tail(dispatched))
      ELSE OuterDispatch(Tail(dispatched))

\* C28: emit invokes every callback registered when it is called exactly
\* once, in registration order, also when a callback throws or
\* unregisters during the dispatch.
C28_EveryListenerOnce ==
    eventBus.emits > 0 => OuterDispatch(eventBus.dispatched) = eventBus.before

\* An emit during which no wrapper of once unregisters invokes every
\* registered callback once, in order, whether callbacks throw or not.
C28_EveryListenerWhenNoneLeaves ==
    (/\ eventBus.emits > 0
     /\ \A k \in DOMAIN eventBus.before :
          eventBus.before[k].wrapper > 0 => eventBus.before[k].fn = "fail")
        => OuterDispatch(eventBus.dispatched) = eventBus.before

\* A throwing callback does not stop the dispatch.
C28_WitnessThrow ==
    /\ eventBus.before = <<[fn |-> "fail", wrapper |-> 0], [fn |-> "log", wrapper |-> 0]>>
    /\ OuterDispatch(eventBus.dispatched) = eventBus.before

\* The callback after a wrapper of once is skipped.
C28_WitnessSkipped ==
    /\ eventBus.before = <<[fn |-> "log", wrapper |-> 1], [fn |-> "log", wrapper |-> 0]>>
    /\ OuterDispatch(eventBus.dispatched) = <<[fn |-> "log", wrapper |-> 1]>>
    /\ eventBus.listeners = <<[fn |-> "log", wrapper |-> 0]>>

(***************************************************************************)
(* The event listeners of a component.                                     *)
(*                                                                         *)
(* component.attached are the handlers attached to elements of the page,   *)
(* component.eventListeners is the map from scope to the list stored for   *)
(* it (Undefined for no entry).  Every call of addEventListeners brings    *)
(* new handler functions: a handler is the scope it was attached under,    *)
(* the number of the call and its index in the list.  History: calls       *)
(* counts the addEventListeners calls, replaced holds the handlers of the  *)
(* lists another list was stored over, last is the last operation.         *)
(***************************************************************************)
MaxBatches == 4

Scopes == { "canvas", "controls" }
ListSizes == { 1, 4 }

InitComponent ==
    /\ pc = "idle" /\ call = NoCall /\ ret = NoRet
    /\ outputDir = {} /\ requests = [r \in RequestIds |-> NoRequest]
    /\ editor = Unused /\ eventBus = Unused /\ matcher = Unused
    /\ component = [attached |-> {},
                    eventListeners |-> [scope \in Scopes |-> Undefined],
                    calls |-> 0, replaced |-> {}, last |-> [op |-> "none"]]

\* The handlers of the list stored under the scope.
StoredHandlers(comp, scope) ==
    IF comp.eventListeners[scope] = Undefined THEN {}
    ELSE { comp.eventListeners[scope][1][k] : k \in DOMAIN comp.eventListeners[scope][1] }

\* addEventListeners(scope, listeners): every handler is attached, the list
\* is stored under the scope.
AddEventListeners(scope) ==
    /\ component.calls < MaxBatches
    /\ \E size \in ListSizes :
         LET listeners == [k \in 1..size |->
                              [scope |-> scope, batch |-> component.calls + 1, index |-> k]]
         IN component' = [component EXCEPT
                !.attached = @ \cup { listeners[k] : k \in 1..size },
                !.eventListeners[scope] = Some(listeners),
                !.replaced = @ \cup StoredHandlers(component, scope),
                !.calls = @ + 1,
                !.last = [op |-> "add", scope |-> scope]]
    /\ UNCHANGED <<engine, server, editor, eventBus, matcher>>

\* The handlers left attached and the map after removeEventListeners(scope).
Detach(comp, scope) ==
    IF comp.eventListeners[scope] = Undefined THEN comp
    ELSE [comp EXCEPT
             !.attached = @ \ { comp.eventListeners[scope][1][k] :
                                  k \in DOMAIN comp.eventListeners[scope][1] },
             !.eventListeners[scope] = Undefined]

\* removeEventListeners(scope)
RemoveEventListeners(scope) ==
    /\ component' = [Detach(component, scope) EXCEPT
                        !.last = [op |-> "remove", scope |-> scope]]
    /\ UNCHANGED <<engine, server, editor, eventBus, matcher>>

\* eventListeners.forEach((_, scope) => removeEventListeners(scope))
RECURSIVE DetachAll(_, _)
DetachAll(comp, scopes) ==
    IF scopes = {} THEN comp
    ELSE LET scope == CHOOSE sc \in scopes : TRUE
         IN DetachAll(Detach(comp, scope), scopes \ {scope})

\* destroy()
Destroy ==
    /\ component' = [DetachAll(component, Scopes) EXCEPT !.last = [op |-> "destroy"]]
    /\ UNCHANGED <<engine, server, editor, eventBus, matcher>>

NextComponent ==
    \/ \E scope \in Scopes : AddEventListeners(scope)
    \/ \E scope \in Scopes : RemoveEventListeners(scope)
    \/ Destroy

SpecComponent == InitComponent /\ [][NextComponent]_vars

(***************************************************************************)
(* Properties of the listeners.                                            *)
(***************************************************************************)
AttachedUnder(scope) == { handler \in component.attached : handler.scope = scope }

\* C29: after any sequence of addEventListeners and removeEventListeners
\* calls, removeEventListeners(scope) detaches every handler attached under
\* the scope, and destroy() leaves no handler attached.
C29_RemoveDetachesScope ==
    /\ component.last = [op |-> "destroy"] => component.attached = {}
    /\ \A scope \in Scopes :
         component.last = [op |-> "remove", scope |-> scope] => AttachedUnder(scope) = {}

\* The handlers attached under a scope are those of the list stored under
\* it and those of the lists of earlier addEventListeners calls that a
\* later call with the same scope replaced; removeEventListeners and
\* destroy detach the stored list and leave the replaced ones attached.
C29_OnlyLastListDetached ==
    \A scope \in Scopes :
        /\ AttachedUnder(scope) =
               StoredHandlers(component, scope)
                   \cup { handler \in component.replaced : handler.scope = scope }
        /\ component.last \in { [op |-> "destroy"], [op |-> "remove", scope |-> scope] }
             => StoredHandlers(component, scope) = {}

\* One addEventListeners call per scope: destroy detaches everything.
C29_WitnessClean ==
    /\ component.last = [op |-> "destroy"]
    /\ component.calls = 2
    /\ component.attached = {}

\* Two canvases bound under 'canvas': the handlers of the first stay
\* attached after removeEventListeners('canvas').
C29_WitnessLeak ==
    /\ component.last = [op |-> "remove", scope |-> "canvas"]
    /\ component.calls = 2
    /\ component.attached = { [scope |-> "canvas", batch |-> 1, index |-> k] : k \in 1..4 }

(***************************************************************************)
(* The preview of the colour matcher.                                      *)
(*                                                                         *)
(* A reference image and a bulk image are loaded.  matcher.controls stands *)
(* for the values of the controls: every change gives a new value, named   *)
(* by the number of changes so far.  matcher.pending are the timeouts that *)
(* are set and have neither fired nor been cleared, debounceTimeout is the *)
(* identifier the field holds (0 for null).  A timeout that fires starts a *)
(* run of the callback: it is "drawing" while it awaits the two            *)
(* drawImageToCanvas calls, "requested" from getCurrentOptions and the     *)
(* fetch on, "done" when the response is drawn to the adjusted canvas.     *)
(* Requests are taken to succeed.  History: requests numbers the requests  *)
(* in the order they are sent, inOrder says that no response was drawn     *)
(* after the response of a later request.                                  *)
(***************************************************************************)
MaxChanges == 3

NotStarted == [stage |-> "none", options |-> 0, request |-> 0]

InitMatcher ==
    /\ pc = "idle" /\ call = NoCall /\ ret = NoRet
    /\ outputDir = {} /\ requests = [r \in RequestIds |-> NoRequest]
    /\ editor = Unused /\ eventBus = Unused /\ component = Unused
    /\ matcher = [controls |-> 0, timeouts |-> 0, debounceTimeout |-> 0, pending |-> {},
                  runs |-> [i \in 1..MaxChanges |-> NotStarted],
                  requests |-> 0, adjustedCanvas |-> Undefined, inOrder |-> TRUE]

\* A control changes and updatePreview is called: the timeout of the field
\* is cleared and a new one is set.
ChangeControl ==
    /\ matcher.controls < MaxChanges
    /\ matcher' = [matcher EXCEPT
           !.controls = @ + 1,
           !.timeouts = @ + 1,
           !.debounceTimeout = matcher.timeouts + 1,
           !.pending = (@ \ {matcher.debounceTimeout}) \cup {matcher.timeouts + 1}]
    /\ UNCHANGED <<engine, server, editor, eventBus, component>>

\* 500 ms have passed: the callback of a pending timeout starts.
TimeoutFires(id) ==
    /\ id \in matcher.pending
    /\ matcher' = [matcher EXCEPT
           !.pending = @ \ {id},
           !.runs[id] = [stage |-> "drawing", options |-> 0, request |-> 0]]
    /\ UNCHANGED <<engine, server, editor, eventBus, component>>

\* The original and the reference are drawn: getCurrentOptions reads the
\* controls and the request is sent.
RequestPreview(id) ==
    /\ matcher.runs[id].stage = "drawing"
    /\ matcher' = [matcher EXCEPT
           !.requests = @ + 1,
           !.runs[id] = [stage |-> "requested", options |-> matcher.controls,
                         request |-> matcher.requests + 1]]
    /\ UNCHANGED <<engine, server, editor, eventBus, component>>

\* The response arrives and is drawn to the adjusted canvas.
DrawPreview(id) ==
    /\ matcher.runs[id].stage = "requested"
    /\ matcher' = [matcher EXCEPT
           !.runs[id].stage = "done",
           !.adjustedCanvas = Some(matcher.runs[id].options),
           !.inOrder = @ /\ \A other \in 1..MaxChanges :
                                matcher.runs[other].stage = "done"
                                    => matcher.runs[other].request < matcher.runs[id].request]
    /\ UNCHANGED <<engine, server, editor, eventBus, component>>

NextMatcher ==
    \/ ChangeControl
    \/ \E id \in 1..MaxChanges : TimeoutFires(id)
    \/ \E id \in 1..MaxChanges : RequestPreview(id)
    \/ \E id \in 1..MaxChanges : DrawPreview(id)

SpecMatcher == InitMatcher /\ [][NextMatcher]_vars

(***************************************************************************)
(* Properties of the preview.                                              *)
(***************************************************************************)
\* The user has changed something, and nothing is pending or under way.
Settled ==
    /\ matcher.controls > 0
    /\ matcher.pending = {}
    /\ \A id \in 1..MaxChanges : matcher.runs[id].stage \in { "none", "done" }

\* C30: for any sequence of control changes and any ordering of the
\* responses, once the user stops the adjusted canvas shows the preview of
\* the most recent control values, and the changes made within the
\* debounce window cause one request only.
C30_LatestPreviewShown ==
    /\ Cardinality(matcher.pending) <= 1
    /\ Settled => matcher.adjustedCanvas = Some(matcher.controls)

\* At most one timeout is pending, so the changes of one window cause one
\* request; once settled the request sent last was made for the final
\* values, and the canvas shows them if the responses were drawn in the
\* order of the requests.
C30_LatestShownWhenInOrder ==
    /\ Cardinality(matcher.pending) <= 1
    /\ Settled =>
         /\ \E id \in 1..MaxChanges :
              /\ matcher.runs[id].request = matcher.requests
              /\ matcher.runs[id].options = matcher.controls
         /\ matcher.inOrder => matcher.adjustedCanvas = Some(matcher.controls)

\* Three changes within one window: one request, for the final values.
C30_WitnessDebounced ==
    /\ Settled
    /\ matcher.controls = 3
    /\ matcher.requests = 1
    /\ matcher.adjustedCanvas = Some(3)

\* The response of the first request is drawn after that of the second.
C30_WitnessStale ==
    /\ Settled
    /\ matcher.controls = 2
    /\ matcher.requests = 2
    /\ ~matcher.inOrder
    /\ matcher.adjustedCanvas = Some(1)

====
